---- MODULE Spec2Model ----
(***************************************************************************)
(* Comparison and validation engine of the stage-2 motherboard harness:    *)
(* HardwareDiff (hw_diff_module.py) and SensorValidator                    *)
(* (sensor_validator.py).                                                  *)
(*                                                                         *)
(* Text is modelled as a sequence of one-character strings, so that the    *)
(* code's lower(), upper(), strip(), split(), replace(), endswith() and    *)
(* substring tests are computed rather than assumed.                       *)
(***************************************************************************)
EXTENDS Integers, Sequences, FiniteSets, TLC

VARIABLES
    call,                \* the last operation invoked: its name, arguments and outcome
    baseline_config,     \* HardwareDiff.baseline_config
    overall_status,      \* HardwareDiff.overall_status
    diff_results,        \* HardwareDiff.diff_results
    limits,              \* SensorValidator.limits
    validation_results   \* SensorValidator.validation_results

vars == <<call, baseline_config, overall_status, diff_results, limits, validation_results>>

\* Bound on the length of every entity list of a hardware snapshot.
MaxLen == 2

NoCall == [op |-> "none"]
EmptyDict == <<>>

-----------------------------------------------------------------------------
(* Generic helpers for sequences and text *)

RECURSIVE SeqsUpTo(_, _)
SeqsUpTo(S, n) ==
    IF n = 0 THEN {<<>>}
    ELSE LET shorter == SeqsUpTo(S, n - 1)
         IN shorter \cup {Append(s, x) : s \in {t \in shorter : Len(t) = n - 1}, x \in S}

Range(s) == {s[i] : i \in 1..Len(s)}

Perms(S) == {p \in [1..Cardinality(S) -> S] : \A x \in S : \E i \in DOMAIN p : p[i] = x}

RECURSIVE Flatten(_)
Flatten(ss) == IF ss = <<>> THEN <<>> ELSE Head(ss) \o Flatten(Tail(ss))

RECURSIVE SumSeq(_)
SumSeq(s) == IF s = <<>> THEN 0 ELSE Head(s) + SumSeq(Tail(s))

UpperChars == <<"A","B","C","D","E","F","G","H","I","J","K","L","M",
                "N","O","P","Q","R","S","T","U","V","W","X","Y","Z">>
LowerChars == <<"a","b","c","d","e","f","g","h","i","j","k","l","m",
                "n","o","p","q","r","s","t","u","v","w","x","y","z">>
DigitChars == <<"0","1","2","3","4","5","6","7","8","9">>

IsDigitChar(c) == \E i \in 1..10 : DigitChars[i] = c
DigitValue(c) == (CHOOSE i \in 1..10 : DigitChars[i] = c) - 1
IsSpaceChar(c) == c \in {" ", "\t", "\n"}

ToLower == [c \in Range(UpperChars) |-> LowerChars[CHOOSE i \in 1..26 : UpperChars[i] = c]]
ToUpper == [c \in Range(LowerChars) |-> UpperChars[CHOOSE i \in 1..26 : LowerChars[i] = c]]
LowerChar(c) == IF c \in DOMAIN ToLower THEN ToLower[c] ELSE c
UpperChar(c) == IF c \in DOMAIN ToUpper THEN ToUpper[c] ELSE c

\* str.lower(), str.upper()
Lower(s) == [i \in 1..Len(s) |-> LowerChar(s[i])]
Upper(s) == [i \in 1..Len(s) |-> UpperChar(s[i])]

\* str.strip()
Strip(s) ==
    LET keep == {i \in 1..Len(s) : ~IsSpaceChar(s[i])}
    IN IF keep = {} THEN <<>>
       ELSE LET lo == CHOOSE i \in keep : \A j \in keep : i <= j
                hi == CHOOSE i \in keep : \A j \in keep : j <= i
            IN SubSeq(s, lo, hi)

\* s[i:].startswith(t), with i counted from 1
MatchAt(s, t, i) == i + Len(t) - 1 <= Len(s) /\ SubSeq(s, i, i + Len(t) - 1) = t

\* `t in s` for strings
Contains(s, t) == \E i \in 1..(Len(s) + 1) : MatchAt(s, t, i)

StartsWith(s, t) == MatchAt(s, t, 1)
EndsWith(s, t) == Len(t) <= Len(s) /\ SubSeq(s, Len(s) - Len(t) + 1, Len(s)) = t

\* s.replace(t, ''), t non-empty: leftmost non-overlapping occurrences removed
RECURSIVE Remove(_, _)
Remove(s, t) ==
    IF s = <<>> THEN <<>>
    ELSE IF MatchAt(s, t, 1) THEN Remove(SubSeq(s, Len(t) + 1, Len(s)), t)
    ELSE <<Head(s)>> \o Remove(Tail(s), t)

\* s.split(t)[0]
BeforeFirst(s, t) ==
    IF Contains(s, t)
    THEN SubSeq(s, 1, (CHOOSE i \in 1..Len(s) :
                          MatchAt(s, t, i) /\ \A j \in 1..(i - 1) : ~MatchAt(s, t, j)) - 1)
    ELSE s


\* The characters of the model's texts, in code-point order.
AsciiChars == <<" ", "'", "(", ")", ",", "-", ".", "/">> \o DigitChars \o <<":", "=">>
              \o UpperChars \o <<"[", "]", "_">> \o LowerChars
CodePoint(c) == CHOOSE i \in DOMAIN AsciiChars : AsciiChars[i] = c

\* s < t for strings
StrLess(s, t) ==
    \E i \in 1..(Len(s) + 1) :
        /\ i <= Len(t)
        /\ SubSeq(s, 1, i - 1) = SubSeq(t, 1, i - 1)
        /\ (i > Len(s) \/ CodePoint(s[i]) < CodePoint(t[i]))

\* sorted(S) for a set of strings
Sorted(S) == CHOOSE p \in Perms(S) : \A i, j \in DOMAIN p : i < j => StrLess(p[i], p[j])

\* int(s): surrounding whitespace, a sign, digits with single underscores between them
IntParses(s) ==
    LET x == Strip(s)
        body == IF x # <<>> /\ Head(x) \in {"+", "-"} THEN Tail(x) ELSE x
    IN /\ body # <<>>
       /\ \A i \in DOMAIN body : IsDigitChar(body[i]) \/ body[i] = "_"
       /\ IsDigitChar(body[1]) /\ IsDigitChar(body[Len(body)])
       /\ \A i \in 1..(Len(body) - 1) : ~(body[i] = "_" /\ body[i + 1] = "_")

RECURSIVE DigitsValue(_, _)
DigitsValue(acc, s) ==
    IF s = <<>> THEN acc
    ELSE IF Head(s) = "_" THEN DigitsValue(acc, Tail(s))
    ELSE DigitsValue(10 * acc + DigitValue(Head(s)), Tail(s))

IntValue(s) ==
    LET x == Strip(s)
    IN IF Head(x) = "-" THEN 0 - DigitsValue(0, Tail(x))
       ELSE IF Head(x) = "+" THEN DigitsValue(0, Tail(x))
       ELSE DigitsValue(0, x)

\* re.findall(r'\d+', s)[0], as a string; <<>> when s holds no digit
FirstDigitRun(s) ==
    LET at == {i \in DOMAIN s : IsDigitChar(s[i])}
    IN IF at = {} THEN <<>>
       ELSE LET lo == CHOOSE i \in at : \A j \in at : i <= j
                hi == CHOOSE i \in lo..Len(s) :
                          /\ \A j \in lo..i : IsDigitChar(s[j])
                          /\ (i = Len(s) \/ ~IsDigitChar(s[i + 1]))
            IN SubSeq(s, lo, hi)

\* str.isdigit()
IsDigitStr(s) == s # <<>> /\ \A i \in DOMAIN s : IsDigitChar(s[i])

\* float(s) for decimal notation: surrounding whitespace, a sign, digits with at
\* most one point and at least one digit; and the words inf, infinity and nan.
\* (Exponents and underscores do not occur in the texts of the model.)
FloatWords == { <<"i","n","f">>, <<"i","n","f","i","n","i","t","y">>, <<"n","a","n">> }

Unsigned(s) ==
    LET x == Strip(s)
    IN IF x # <<>> /\ Head(x) \in {"+", "-"} THEN Tail(x) ELSE x

FloatParses(s) ==
    LET body == Unsigned(s)
        points == {i \in DOMAIN body : body[i] = "."}
    IN \/ Lower(body) \in FloatWords
       \/ /\ \A i \in DOMAIN body : IsDigitChar(body[i]) \/ body[i] = "."
          /\ Cardinality(points) <= 1
          /\ \E i \in DOMAIN body : IsDigitChar(body[i])

\* The parsed number as num / 10^scale, or an infinity or a NaN.
FloatValue(s) ==
    LET x == Strip(s)
        negative == x # <<>> /\ Head(x) = "-"
        body == Unsigned(s)
        digits == SelectSeq(body, IsDigitChar)
        points == {i \in DOMAIN body : body[i] = "."}
        scale == IF points = {} THEN 0 ELSE Len(body) - (CHOOSE i \in points : TRUE)
        magnitude == DigitsValue(0, digits)
    IN IF Lower(body) = <<"n","a","n">> THEN [kind |-> "nan", num |-> 0, scale |-> 0]
       ELSE IF Lower(body) \in FloatWords
       THEN [kind |-> "inf", num |-> IF negative THEN -1 ELSE 1, scale |-> 0]
       ELSE [kind |-> "num", num |-> IF negative THEN 0 - magnitude ELSE magnitude,
             scale |-> scale]

RECURSIVE Pow10(_)
Pow10(n) == IF n = 0 THEN 1 ELSE 10 * Pow10(n - 1)

\* v > n and v < n for a parsed float v and an integer n; false for a NaN
FloatGreater(v, n) ==
    \/ v.kind = "inf" /\ v.num > 0
    \/ v.kind = "num" /\ v.num > n * Pow10(v.scale)
FloatLess(v, n) ==
    \/ v.kind = "inf" /\ v.num < 0
    \/ v.kind = "num" /\ v.num < n * Pow10(v.scale)

\* str(n) for a natural number
RECURSIVE IntText(_)
IntText(n) == IF n < 10 THEN <<DigitChars[n + 1]>>
              ELSE IntText(n \div 10) \o <<DigitChars[(n % 10) + 1]>>

Quoted(s) == <<"'">> \o s \o <<"'">>

-----------------------------------------------------------------------------
(* Status escalation *)

Statuses == {"PASS", "WARNING", "FAIL", "ERROR", "UNKNOWN"}

STATUS_PRIORITY ==
    [s \in Statuses |->
        CASE s = "PASS" -> 0
          [] s = "WARNING" -> 1
          [] s = "FAIL" -> 2
          [] s = "ERROR" -> 3
          [] s = "UNKNOWN" -> 4]

\* STATUS_PRIORITY.get(status, 0)
PriorityOf(status) == IF status \in DOMAIN STATUS_PRIORITY THEN STATUS_PRIORITY[status] ELSE 0

\* A slip that keeps the lower of the two statuses.
escalate_status_lowest(current_status, new_status) ==
    IF PriorityOf(new_status) < PriorityOf(current_status) THEN new_status ELSE current_status

escalate_status(current_status, new_status) ==
    IF PriorityOf(new_status) > PriorityOf(current_status) THEN new_status ELSE current_status

-----------------------------------------------------------------------------
(* The escalator applied to every triple of statuses *)

InitEngine ==
    /\ baseline_config = EmptyDict
    /\ overall_status = "UNKNOWN"
    /\ diff_results = EmptyDict
    /\ limits = EmptyDict
    /\ validation_results = EmptyDict

EngineUnchanged ==
    UNCHANGED <<baseline_config, overall_status, diff_results, limits, validation_results>>

\* The engine is synchronous and single-threaded: an operation starts only when
\* no other is outstanding, and its caller then takes the outcome.
Idle == call = NoCall

Return ==
    /\ call # NoCall
    /\ call' = NoCall
    /\ EngineUnchanged

InitEscalate == call = NoCall /\ InitEngine

Escalate(a, b, c) ==
    /\ Idle
    /\ call' = [op |-> "_escalate_status", a |-> a, b |-> b, c |-> c,
                ab |-> escalate_status(a, b),
                ba |-> escalate_status(b, a),
                ab_c |-> escalate_status(escalate_status(a, b), c),
                a_bc |-> escalate_status(a, escalate_status(b, c)),
                pass_a |-> escalate_status("PASS", a)]
    /\ EngineUnchanged

NextEscalate ==
    \/ \E a, b, c \in Statuses : Escalate(a, b, c)
    \/ Return

SpecEscalate == InitEscalate /\ [][NextEscalate]_vars

\* The order the specification states: PASS(0) < WARNING(1) < FAIL(2) < ERROR(3) < UNKNOWN(4).
StatedOrder == "PASS" :> 0 @@ "WARNING" :> 1 @@ "FAIL" :> 2 @@ "ERROR" :> 3 @@ "UNKNOWN" :> 4

\* C2: for statuses a, b, c of the five, _escalate_status(a, b) is one of a and b
\* and has a priority not lower than either under PASS < WARNING < FAIL < ERROR <
\* UNKNOWN; the operation is commutative and associative, and escalating PASS
\* with x gives x.
EscalateIsMaxCommAssoc ==
    call.op = "_escalate_status" =>
        /\ call.ab \in {call.a, call.b}
        /\ StatedOrder[call.ab] >= StatedOrder[call.a]
        /\ StatedOrder[call.ab] >= StatedOrder[call.b]
        /\ call.ab = call.ba
        /\ call.ab_c = call.a_bc
        /\ call.pass_a = call.a

\* An escalation of three pairwise different statuses, the lowest given last.
EscalateWitness ==
    /\ call.op = "_escalate_status"
    /\ call.a = "ERROR" /\ call.b = "WARNING" /\ call.c = "PASS"
    /\ call.ab_c = "ERROR"

-----------------------------------------------------------------------------
(* Comparator results *)

\* A comparator's return value, or the exception that left it.
NewResult == [raised |-> FALSE, error |-> "", status |-> "PASS", differences |-> <<>>]
Raised(error) == [raised |-> TRUE, error |-> error, status |-> "", differences |-> <<>>]

\* differences.append(d) without touching the status
Record(acc, d) == [acc EXCEPT !.differences = Append(@, d)]

\* A finding appended with the escalation left out.
FoundWithoutEscalation(acc, d, s) == [acc EXCEPT !.differences = Append(@, d)]

\* differences.append(d); status = _escalate_status(status, s)
Found(acc, d, s) ==
    [acc EXCEPT !.differences = Append(@, d), !.status = escalate_status(@, s)]

\* {rec[key]: rec for rec in list}: the last record of each key wins
DictBy(list, key) ==
    [k \in {list[i][key] : i \in DOMAIN list} |->
        list[CHOOSE i \in DOMAIN list :
                /\ list[i][key] = k
                /\ \A j \in DOMAIN list : list[j][key] = k => j <= i]]


\* Left fold of a loop body over the sequence of values it iterates.
RECURSIVE FoldLeft(_, _, _)
FoldLeft(Op(_, _), acc, s) ==
    IF s = <<>> THEN acc ELSE FoldLeft(Op, Op(acc, Head(s)), Tail(s))

\* The keys of {rec[key]: rec for rec in list} in insertion order.
KeyOrder(list, key) ==
    LET upto[i \in 0..Len(list)] ==
            IF i = 0 THEN <<>>
            ELSE IF list[i][key] \in Range(upto[i - 1]) THEN upto[i - 1]
            ELSE Append(upto[i - 1], list[i][key])
    IN upto[Len(list)]

\* The distinct values of a sequence, in order of first occurrence.
Distinct(s) ==
    LET upto[i \in 0..Len(s)] ==
            IF i = 0 THEN <<>>
            ELSE IF s[i] \in Range(upto[i - 1]) THEN upto[i - 1]
            ELSE Append(upto[i - 1], s[i])
    IN upto[Len(s)]

-----------------------------------------------------------------------------
(* compare_processors *)

Processors ==
    { [socket |-> "CPU0", model |-> "Xeon-A", cores |-> "8", threads |-> "16"],
      [socket |-> "CPU1", model |-> "Xeon-A", cores |-> "8", threads |-> "16"],
      [socket |-> "CPU0", model |-> "Xeon-B", cores |-> "8", threads |-> "16"],
      [socket |-> "CPU0", model |-> "Xeon-A", cores |-> "4", threads |-> "16"],
      [socket |-> "CPU0", model |-> "Xeon-A", cores |-> "8", threads |-> "32"],
      [socket |-> "CPU0", model |-> "Xeon-A", cores |-> "Unknown", threads |-> "Unknown"] }

ProcessorLists == SeqsUpTo(Processors, MaxLen)

\* The cores check entered without the test of line 414.
CoresCheckUnguarded(acc, current_cores, baseline_cores) ==
    IF current_cores = "Unknown" /\ baseline_cores # "Unknown" THEN Raised("NameError")
    ELSE IF current_cores = "Unknown" /\ baseline_cores = "Unknown" THEN acc
    ELSE IF baseline_cores = "Unknown" /\ current_cores # "Unknown" THEN acc
    ELSE Raised("NameError")

\* Lines 414-446: every branch that records a cores finding uses the name
\* `result`, which compare_processors never binds, and so raises NameError.
CoresCheck(acc, current_cores, baseline_cores) ==
    IF current_cores = baseline_cores THEN acc
    ELSE IF current_cores = "Unknown" /\ baseline_cores # "Unknown" THEN Raised("NameError")
    ELSE IF current_cores = "Unknown" /\ baseline_cores = "Unknown" THEN acc
    ELSE IF baseline_cores = "Unknown" /\ current_cores # "Unknown" THEN acc
    ELSE Raised("NameError")

\* The body of the loop over sockets (lines 382-459).
ProcessorSocketStep(acc, socket_name, current_by_socket, baseline_by_socket) ==
    IF acc.raised THEN acc
    ELSE IF socket_name \notin DOMAIN current_by_socket
    THEN Found(acc, [kind |-> "socket_missing", socket |-> socket_name], "FAIL")
    ELSE IF socket_name \notin DOMAIN baseline_by_socket
    THEN Found(acc, [kind |-> "socket_extra", socket |-> socket_name], "WARNING")
    ELSE LET current_cpu == current_by_socket[socket_name]
             baseline_cpu == baseline_by_socket[socket_name]
             after_model ==
                 IF current_cpu.model # baseline_cpu.model
                 THEN Found(acc, [kind |-> "model_mismatch", socket |-> socket_name,
                                  current |-> current_cpu.model,
                                  baseline |-> baseline_cpu.model], "FAIL")
                 ELSE acc
             after_cores == CoresCheck(after_model, current_cpu.cores, baseline_cpu.cores)
         IN IF after_cores.raised THEN after_cores
            ELSE IF current_cpu.threads # baseline_cpu.threads
            THEN Found(after_cores, [kind |-> "threads_mismatch", socket |-> socket_name,
                                     current |-> current_cpu.threads,
                                     baseline |-> baseline_cpu.threads], "FAIL")
            ELSE after_cores

RECURSIVE ProcessorSockets(_, _, _, _)
ProcessorSockets(acc, order, current_by_socket, baseline_by_socket) ==
    IF order = <<>> THEN acc
    ELSE ProcessorSockets(
             ProcessorSocketStep(acc, Head(order), current_by_socket, baseline_by_socket),
             Tail(order), current_by_socket, baseline_by_socket)

ProcessorKeys(current, baseline) ==
    DOMAIN DictBy(baseline, "socket") \cup DOMAIN DictBy(current, "socket")

\* `order` is the order in which the set of socket names happens to be iterated.
compare_processors(current, baseline, order) ==
    LET counted ==
            IF Len(current) # Len(baseline)
            THEN Found(NewResult, [kind |-> "cpu_count_mismatch", current |-> Len(current),
                                   baseline |-> Len(baseline)], "FAIL")
            ELSE NewResult
    IN ProcessorSockets(counted, order, DictBy(current, "socket"), DictBy(baseline, "socket"))

CompareProcessors ==
    /\ Idle
    /\ \E current, baseline \in ProcessorLists :
            \E order \in Perms(ProcessorKeys(current, baseline)) :
               /\ call' = [op |-> "compare_processors", current |-> current,
                              baseline |-> baseline,
                              result |-> compare_processors(current, baseline, order)]
               /\ EngineUnchanged

-----------------------------------------------------------------------------
(* compare_memory *)

txt_32_GB == <<"3","2"," ","G","B">>
txt_16_GB == <<"1","6"," ","G","B">>
txt_16384_MB == <<"1","6","3","8","4"," ","M","B">>
txt_No_Module_Installed == <<"N","o"," ","M","o","d","u","l","e"," ","I","n","s","t","a","l","l","e","d">>
txt_A1 == <<"A","1">>
txt_B1 == <<"B","1">>
txt_sp_GB == <<" ","G","B">>
txt_GB == <<"G","B">>
txt_sp_MB == <<" ","M","B">>
txt_MB == <<"M","B">>

MemoryModules ==
    { [slot |-> txt_A1, size |-> txt_32_GB, populated |-> TRUE],
      [slot |-> txt_B1, size |-> txt_32_GB, populated |-> TRUE],
      [slot |-> txt_A1, size |-> txt_16_GB, populated |-> TRUE],
      [slot |-> txt_B1, size |-> txt_16384_MB, populated |-> TRUE],
      [slot |-> txt_A1, size |-> txt_No_Module_Installed, populated |-> FALSE],
      [slot |-> txt_B1, size |-> txt_No_Module_Installed, populated |-> FALSE] }

MemoryLists == SeqsUpTo(MemoryModules, MaxLen)

\* int(text) inside the try block: a ValueError makes parse_memory_size return 0
IntOrZero(text) == IF IntParses(text) THEN IntValue(text) ELSE 0

parse_memory_size(size_str) ==
    IF size_str = <<>> \/ size_str = txt_No_Module_Installed THEN 0
    ELSE LET s == Upper(Strip(size_str))
         IN IF EndsWith(s, txt_sp_GB) THEN IntOrZero(Remove(s, txt_sp_GB))
            ELSE IF EndsWith(s, txt_GB) THEN IntOrZero(Remove(s, txt_GB))
            ELSE IF EndsWith(s, txt_sp_MB)
            THEN IF IntParses(Remove(s, txt_sp_MB))
                 THEN IntValue(Remove(s, txt_sp_MB)) \div 1024 ELSE 0
            ELSE IF EndsWith(s, txt_MB)
            THEN IF IntParses(Remove(s, txt_MB))
                 THEN IntValue(Remove(s, txt_MB)) \div 1024 ELSE 0
            ELSE IF IsDigitStr(s) THEN IntValue(s)
            ELSE IF FirstDigitRun(s) # <<>> THEN IntValue(FirstDigitRun(s))
            ELSE 0

\* parse_memory_size on each size text of the model, computed once.
ParsedSizeOf == [s \in {m.size : m \in MemoryModules} |-> parse_memory_size(s)]

\* Number of populated modules and their total parsed size (lines 526-536).
PopulatedCount(modules) == Cardinality({i \in DOMAIN modules : modules[i].populated})
TotalMemoryGb(modules) ==
    SumSeq([i \in DOMAIN modules |->
               IF modules[i].populated THEN ParsedSizeOf[modules[i].size] ELSE 0])

\* dimm.get('populated', False) of slots.get(slot, {})
SlotPopulated(by_slot, slot) == slot \in DOMAIN by_slot /\ by_slot[slot].populated

\* The body of the loop over the sorted slots (lines 568-604).
MemorySlotStep(acc, slot, current_slots, baseline_slots) ==
    LET current_populated == SlotPopulated(current_slots, slot)
        baseline_populated == SlotPopulated(baseline_slots, slot)
    IN IF current_populated = baseline_populated THEN acc
       ELSE Found(acc, [type |-> "slot_population_change", slot |-> slot,
                        change |-> IF current_populated THEN "ADDED" ELSE "REMOVED",
                        severity |-> "minor"], "WARNING")

RECURSIVE MemorySlots(_, _, _, _)
MemorySlots(acc, order, current_slots, baseline_slots) ==
    IF order = <<>> THEN acc
    ELSE MemorySlots(MemorySlotStep(acc, Head(order), current_slots, baseline_slots),
                     Tail(order), current_slots, baseline_slots)

\* The comparison of the totals with a mismatch rated WARNING.
TotalMemoryCheckRatedWarning(acc, total_current, total_baseline) ==
    IF total_current # total_baseline
    THEN Found(acc, [type |-> "total_memory_mismatch", current |-> total_current,
                     baseline |-> total_baseline, severity |-> "major"], "WARNING")
    ELSE acc

\* Lines 551-559.
TotalMemoryCheck(acc, total_current, total_baseline) ==
    IF total_current # total_baseline
    THEN Found(acc, [type |-> "total_memory_mismatch", current |-> total_current,
                     baseline |-> total_baseline, severity |-> "major"], "FAIL")
    ELSE acc

compare_memory(current, baseline) ==
    LET populated_current == PopulatedCount(current)
        populated_baseline == PopulatedCount(baseline)
        total_current == TotalMemoryGb(current)
        total_baseline == TotalMemoryGb(baseline)
        after_count ==
            IF populated_current # populated_baseline
            THEN Found(NewResult, [type |-> "slot_count_mismatch",
                                   current |-> populated_current,
                                   baseline |-> populated_baseline,
                                   severity |-> "warning"], "WARNING")
            ELSE NewResult
        after_total == TotalMemoryCheck(after_count, total_current, total_baseline)
        current_slots == DictBy(current, "slot")
        baseline_slots == DictBy(baseline, "slot")
        all_slots == DOMAIN current_slots \cup DOMAIN baseline_slots
    IN MemorySlots(after_total, Sorted(all_slots), current_slots, baseline_slots)

\* compare_memory keeping its status in the engine.
CompareMemoryStoresStatus ==
    /\ Idle
    /\ \E current, baseline \in MemoryLists :
           /\ call' = [op |-> "compare_memory", current |-> current, baseline |-> baseline,
                          result |-> compare_memory(current, baseline)]
           /\ overall_status' = compare_memory(current, baseline).status
           /\ UNCHANGED <<baseline_config, diff_results, limits, validation_results>>

CompareMemory ==
    /\ Idle
    /\ \E current, baseline \in MemoryLists :
           /\ call' = [op |-> "compare_memory", current |-> current, baseline |-> baseline,
                          result |-> compare_memory(current, baseline)]
           /\ EngineUnchanged

-----------------------------------------------------------------------------
(* compare_pci_devices *)

txt_Host_bridge == <<"H","o","s","t"," ","b","r","i","d","g","e">>
txt_PCI_bridge == <<"P","C","I"," ","b","r","i","d","g","e">>
txt_ISA_bridge == <<"I","S","A"," ","b","r","i","d","g","e">>
txt_Ethernet_controller == <<"E","t","h","e","r","n","e","t"," ","c","o","n","t","r","o","l","l","e","r">>
txt_USB_controller == <<"U","S","B"," ","c","o","n","t","r","o","l","l","e","r">>
txt_SATA_controller == <<"S","A","T","A"," ","c","o","n","t","r","o","l","l","e","r">>
txt_System_peripheral == <<"S","y","s","t","e","m"," ","p","e","r","i","p","h","e","r","a","l">>
txt_Unknown == <<"U","n","k","n","o","w","n">>
txt_sp_bracket == <<" ","[">>
txt_Ethernet_controller_0200 == <<"E","t","h","e","r","n","e","t"," ","c","o","n","t","r","o","l","l","e","r"," ","[","0","2","0","0","]">>
txt_Host_bridge_0600 == <<"H","o","s","t"," ","b","r","i","d","g","e"," ","[","0","6","0","0","]">>
txt_VGA_0300 == <<"V","G","A"," ","c","o","m","p","a","t","i","b","l","e"," ","c","o","n","t","r","o","l","l","e","r"," ","[","0","3","0","0","]">>

PciDevices ==
    { [bdf |-> "01:00.0", description |-> "I350 Gigabit", class |-> txt_Ethernet_controller_0200],
      [bdf |-> "01:00.1", description |-> "I350 Gigabit", class |-> txt_Ethernet_controller_0200],
      [bdf |-> "01:00.0", description |-> "X710 10GbE", class |-> txt_Ethernet_controller],
      [bdf |-> "00:00.0", description |-> "Sky Lake-E DMI3", class |-> txt_Host_bridge_0600],
      [bdf |-> "02:00.0", description |-> "ASPEED Graphics", class |-> txt_VGA_0300],
      [bdf |-> "01:00.0", description |-> "ASPEED Graphics", class |-> txt_VGA_0300] }

PciLists == SeqsUpTo(PciDevices, MaxLen)

critical_classes ==
    { txt_Host_bridge, txt_PCI_bridge, txt_ISA_bridge, txt_Ethernet_controller,
      txt_USB_controller, txt_SATA_controller, txt_System_peripheral }

clean_device_class(device_class) ==
    IF device_class = <<>> THEN txt_Unknown
    ELSE Strip(BeforeFirst(device_class, txt_sp_bracket))

\* clean_device_class on each class text of the model, computed once.
CleanClassOf == [c \in {d.class : d \in PciDevices} |-> clean_device_class(c)]

IsCriticalClass(device_class) ==
    \E cls \in critical_classes : Contains(CleanClassOf[device_class], cls)

\* The test of lines 653 and 657 on each class text of the model, computed once.
CriticalClassOf == [c \in {d.class : d \in PciDevices} |-> IsCriticalClass(c)]

IsCriticalPci(dev) == CriticalClassOf[dev.class]

\* The BDFs of baseline_critical / current_critical, in insertion order.
CriticalBdfs(devices) ==
    LET by_bdf == DictBy(devices, "bdf")
    IN SelectSeq(KeyOrder(devices, "bdf"), LAMBDA bdf : IsCriticalPci(by_bdf[bdf]))

\* The cleaned class of each critical device, in the order of baseline_critical.values().
CriticalClasses(devices) ==
    LET by_bdf == DictBy(devices, "bdf")
        bdfs == CriticalBdfs(devices)
    IN [i \in DOMAIN bdfs |-> CleanClassOf[by_bdf[bdfs[i]].class]]

\* len(by_class.get(dev_class, []))
ClassCount(devices, dev_class) ==
    LET classes == CriticalClasses(devices)
    IN Cardinality({i \in DOMAIN classes : classes[i] = dev_class})

\* The loop body with a count mismatch rated WARNING.
PciClassStepRatedWarning(acc, dev_class, current, baseline) ==
    LET baseline_count == ClassCount(baseline, dev_class)
        current_count == ClassCount(current, dev_class)
    IN IF baseline_count # current_count
       THEN Found(acc, [kind |-> "class_count_mismatch", class |-> dev_class,
                        expected |-> baseline_count, found |-> current_count], "WARNING")
       ELSE acc

\* Lines 676-692.
PciClassStep(acc, dev_class, current, baseline) ==
    LET baseline_count == ClassCount(baseline, dev_class)
        current_count == ClassCount(current, dev_class)
    IN IF baseline_count # current_count
       THEN Found(acc, [kind |-> "class_count_mismatch", class |-> dev_class,
                        expected |-> baseline_count, found |-> current_count], "FAIL")
       ELSE acc

\* Lines 695-706.
PciNewClassStep(acc, dev_class, baseline) ==
    IF dev_class \notin Range(CriticalClasses(baseline))
    THEN Found(acc, [kind |-> "new_class", class |-> dev_class], "WARNING")
    ELSE acc

\* Lines 709-743.
PciBdfStep(acc, bdf, current_by_bdf, baseline_by_bdf) ==
    IF bdf \notin DOMAIN current_by_bdf
    THEN Found(acc, [kind |-> "device_missing", bdf |-> bdf], "FAIL")
    ELSE IF bdf \notin DOMAIN baseline_by_bdf THEN acc
    ELSE LET current_dev == current_by_bdf[bdf]
             baseline_dev == baseline_by_bdf[bdf]
             baseline_clean_class == CleanClassOf[baseline_dev.class]
         IN IF /\ current_dev.description # baseline_dev.description
               /\ \E cls \in {txt_Ethernet_controller, txt_USB_controller} :
                      Contains(baseline_clean_class, cls)
            THEN Found(acc, [kind |-> "description_changed", bdf |-> bdf,
                             current |-> current_dev.description,
                             baseline |-> baseline_dev.description], "WARNING")
            ELSE acc

PciKeys(current, baseline) == Range(CriticalBdfs(baseline)) \cup Range(CriticalBdfs(current))

\* `order` is the order in which the set of critical BDFs happens to be iterated.
compare_pci_devices(current, baseline, order) ==
    LET after_classes ==
            FoldLeft(LAMBDA acc, c : PciClassStep(acc, c, current, baseline),
                     NewResult, Distinct(CriticalClasses(baseline)))
        after_new ==
            FoldLeft(LAMBDA acc, c : PciNewClassStep(acc, c, baseline),
                     after_classes, Distinct(CriticalClasses(current)))
    IN FoldLeft(LAMBDA acc, bdf : PciBdfStep(acc, bdf, DictBy(current, "bdf"),
                                             DictBy(baseline, "bdf")),
                after_new, order)

ComparePciDevices ==
    /\ Idle
    /\ \E current, baseline \in PciLists :
            \E order \in Perms(PciKeys(current, baseline)) :
               /\ call' = [op |-> "compare_pci_devices", current |-> current,
                              baseline |-> baseline,
                              result |-> compare_pci_devices(current, baseline, order)]
               /\ EngineUnchanged

-----------------------------------------------------------------------------
(* compare_usb_devices *)

kw_hub == <<"h","u","b">>
kw_root_hub == <<"r","o","o","t"," ","h","u","b">>
kw_host_controller == <<"h","o","s","t"," ","c","o","n","t","r","o","l","l","e","r">>
kw_xhci == <<"x","h","c","i">>
kw_ehci == <<"e","h","c","i">>
kw_ohci == <<"o","h","c","i">>
kw_uhci == <<"u","h","c","i">>
kw_keyboard == <<"k","e","y","b","o","a","r","d">>
kw_mouse == <<"m","o","u","s","e">>
kw_management == <<"m","a","n","a","g","e","m","e","n","t">>
kw_controller == <<"c","o","n","t","r","o","l","l","e","r">>
kw_intel == <<"i","n","t","e","l">>
kw_amd == <<"a","m","d">>
kw_via == <<"v","i","a">>
kw_nvidia == <<"n","v","i","d","i","a">>
txt_root_hub == <<"2",".","0"," ","r","o","o","t"," ","h","u","b">>
txt_KVM_Hub == <<"K","V","M"," ","H","u","b">>
txt_Virtual_CDROM == <<"V","i","r","t","u","a","l"," ","C","D","R","O","M">>
txt_Flash_Drive == <<"F","l","a","s","h"," ","D","r","i","v","e">>
txt_Rate_Matching == <<"R","a","t","e"," ","M","a","t","c","h","i","n","g">>
txt_Intel_Corp == <<"I","n","t","e","l"," ","C","o","r","p",".">>

UsbDevices ==
    { [vid_pid |-> "1d6b:0002", description |-> txt_root_hub, vendor |-> <<>>],
      [vid_pid |-> "0557:8021", description |-> txt_KVM_Hub, vendor |-> <<>>],
      [vid_pid |-> "046b:ff20", description |-> txt_Virtual_CDROM, vendor |-> <<>>],
      [vid_pid |-> "0951:1666", description |-> txt_Flash_Drive, vendor |-> <<>>],
      [vid_pid |-> "8087:0024", description |-> txt_Rate_Matching, vendor |-> txt_Intel_Corp] }

UsbLists == SeqsUpTo(UsbDevices, MaxLen)

IGNORABLE_DEVICES ==
    {"0557:8021", "046b:ff01", "046b:ff20", "046b:ff31", "046b:ff10", "046b:ffb0", "0557:223a"}

is_critical_usb(device) ==
    LET description == Lower(device.description)
        vendor == Lower(device.vendor)
    IN \/ \E keyword \in {kw_hub, kw_root_hub, kw_host_controller, kw_xhci, kw_ehci,
                          kw_ohci, kw_uhci} : Contains(description, keyword)
       \/ \E keyword \in {kw_keyboard, kw_mouse, kw_management, kw_controller} :
              Contains(description, keyword)
       \/ \E vendor_name \in {kw_intel, kw_amd, kw_via, kw_nvidia} :
              Contains(vendor, vendor_name)

\* is_critical_usb on each device record of the model, computed once.
CriticalUsbOf == [device \in UsbDevices |-> is_critical_usb(device)]

CriticalUsb(devices) == SelectSeq(devices, LAMBDA device : CriticalUsbOf[device])

\* len(hubs_by_vid_pid.get(vid_pid, []))
UsbCount(devices, vid_pid) ==
    LET critical == CriticalUsb(devices)
    IN Cardinality({i \in DOMAIN critical : critical[i].vid_pid = vid_pid})

\* The step with a shortfall rated like a surplus.
UsbVidPidStepShortfallWarns(acc, vid_pid, current, baseline) ==
    LET baseline_count == UsbCount(baseline, vid_pid)
        current_count == UsbCount(current, vid_pid)
        finding == [kind |-> "usb_count_mismatch", vid_pid |-> vid_pid,
                    expected |-> baseline_count, found |-> current_count]
    IN IF baseline_count = current_count THEN acc
       ELSE Found(acc, finding, "WARNING")

\* Lines 828-854.
UsbVidPidStep(acc, vid_pid, current, baseline) ==
    LET baseline_count == UsbCount(baseline, vid_pid)
        current_count == UsbCount(current, vid_pid)
        finding == [kind |-> "usb_count_mismatch", vid_pid |-> vid_pid,
                    expected |-> baseline_count, found |-> current_count]
    IN IF baseline_count = current_count THEN acc
       ELSE IF baseline_count > current_count THEN Found(acc, finding, "FAIL")
       ELSE IF current_count > baseline_count THEN Found(acc, finding, "WARNING")
       ELSE Record(acc, finding)

UsbKeys(current, baseline) ==
    {d.vid_pid : d \in Range(CriticalUsb(baseline))}
        \cup {d.vid_pid : d \in Range(CriticalUsb(current))}

\* `order` is the order in which the set of VID:PID keys happens to be iterated.
compare_usb_devices(current, baseline, order) ==
    FoldLeft(LAMBDA acc, vid_pid : UsbVidPidStep(acc, vid_pid, current, baseline),
             NewResult, order)
        @@ [ignored_devices |->
                SelectSeq(current, LAMBDA device : device.vid_pid \in IGNORABLE_DEVICES)]

CompareUsbDevices ==
    /\ Idle
    /\ \E current, baseline \in UsbLists :
            \E order \in Perms(UsbKeys(current, baseline)) :
               /\ call' = [op |-> "compare_usb_devices", current |-> current,
                              baseline |-> baseline,
                              result |-> compare_usb_devices(current, baseline, order)]
               /\ EngineUnchanged

-----------------------------------------------------------------------------
(* compare_storage_devices *)

kw_virtual_hdisk == <<"v","i","r","t","u","a","l"," ","h","d","i","s","k">>
kw_ami_virtual == <<"a","m","i"," ","v","i","r","t","u","a","l">>
kw_nvme == <<"n","v","m","e">>
kw_sas == <<"s","a","s">>
kw_seagate == <<"s","e","a","g","a","t","e">>
kw_hitachi == <<"h","i","t","a","c","h","i">>
kw_toshiba == <<"t","o","s","h","i","b","a">>
kw_raid == <<"r","a","i","d">>
kw_logical == <<"l","o","g","i","c","a","l">>
kw_virtual == <<"v","i","r","t","u","a","l">>
kw_megaraid == <<"m","e","g","a","r","a","i","d">>
kw_adaptec == <<"a","d","a","p","t","e","c">>
kw_sd == <<"s","d">>
kw_sata == <<"s","a","t","a">>
kw_ata == <<"a","t","a">>
kw_ssd == <<"s","s","d">>
kw_mmcblk == <<"m","m","c","b","l","k">>
kw_mmc == <<"m","m","c">>
kw_usb == <<"u","s","b">>
txt_nvme0n1 == <<"n","v","m","e","0","n","1">>
txt_sda == <<"s","d","a">>
txt_sdb == <<"s","d","b">>
txt_Micron_7450 == <<"M","i","c","r","o","n"," ","7","4","5","0">>
txt_Virtual_HDisk0 == <<"V","i","r","t","u","a","l"," ","H","D","i","s","k","0">>
txt_ST4000_SATA == <<"S","T","4","0","0","0"," ","S","A","T","A">>
txt_HGST_HUS == <<"H","G","S","T"," ","H","U","S","7","2","6">>
txt_Samsung_SSD == <<"S","a","m","s","u","n","g"," ","S","S","D"," ","8","7","0">>
txt_200GB == <<"2","0","0","G","B">>
txt_1_7T == <<"1",".","7","T">>
txt_80_5GB == <<"8","0",".","5"," ","G","B">>

\* The collectors write the device name under the key 'name'; group_by_type
\* reads the key 'device'.  An absent key reads as the empty text.
StorageDevices ==
    { [name |-> txt_nvme0n1, device |-> <<>>, model |-> txt_Micron_7450,
       size |-> txt_1_7T, transport |-> <<>>],
      [name |-> txt_nvme0n1, device |-> txt_nvme0n1, model |-> txt_Micron_7450,
       size |-> txt_1_7T, transport |-> <<>>],
      [name |-> txt_sdb, device |-> <<>>, model |-> txt_Virtual_HDisk0,
       size |-> txt_1_7T, transport |-> <<>>],
      [name |-> txt_sda, device |-> txt_sda, model |-> txt_ST4000_SATA,
       size |-> txt_1_7T, transport |-> <<>>],
      [name |-> txt_sdb, device |-> txt_sdb, model |-> txt_HGST_HUS,
       size |-> txt_200GB, transport |-> <<>>],
      [name |-> txt_sda, device |-> <<>>, model |-> txt_Samsung_SSD,
       size |-> txt_80_5GB, transport |-> <<>>] }

StorageLists == SeqsUpTo(StorageDevices, MaxLen)

StorageTypes == {"nvme", "sata", "sas", "mmc", "usb", "raid", "other"}

\* The test that keeps every device.
NotVirtualKeepsAll(device) == TRUE

\* The test of line 888: the device is kept.
NotVirtual(device) ==
    LET model == Lower(device.model)
    IN ~Contains(model, kw_virtual_hdisk) /\ ~Contains(model, kw_ami_virtual)

\* Lines 936-947.
TypeBySize(device, model) ==
    IF Contains(device.size, txt_GB)
    THEN IF ~FloatParses(Remove(device.size, txt_GB)) THEN "sata"
         ELSE IF FloatGreater(FloatValue(Remove(device.size, txt_GB)), 100)
                 /\ ~Contains(model, kw_ssd)
         THEN "sas" ELSE "sata"
    ELSE "sata"

\* The group a device is appended to (lines 909-949).
TypeOf(device) ==
    LET device_name == Lower(device.device)
        model == Lower(device.model)
        transport == Lower(device.transport)
    IN IF StartsWith(device_name, kw_nvme) \/ Contains(model, kw_nvme) THEN "nvme"
       ELSE IF \/ Contains(model, kw_sas)
               \/ Contains(transport, kw_sas)
               \/ /\ \E sas_vendor \in {kw_seagate, kw_hitachi, kw_toshiba} :
                         Contains(model, sas_vendor)
                  /\ Contains(model, kw_sas)
       THEN "sas"
       ELSE IF \E raid_keyword \in {kw_raid, kw_logical, kw_virtual, kw_megaraid, kw_adaptec} :
                   Contains(model, raid_keyword)
       THEN "raid"
       ELSE IF \/ /\ StartsWith(device_name, kw_sd)
                  /\ \E sata_keyword \in {kw_sata, kw_ata, kw_ssd} :
                         Contains(model, sata_keyword)
               \/ Contains(transport, kw_sata)
       THEN "sata"
       ELSE IF StartsWith(device_name, kw_mmcblk) \/ Contains(model, kw_mmc) THEN "mmc"
       ELSE IF Contains(transport, kw_usb) \/ Contains(model, kw_usb) THEN "usb"
       ELSE IF StartsWith(device_name, kw_sd) THEN TypeBySize(device, model)
       ELSE "other"

\* NotVirtual and TypeOf on each device record of the model, computed once.
NotVirtualOf == [device \in StorageDevices |-> NotVirtual(device)]
TypeOfDevice == [device \in StorageDevices |-> TypeOf(device)]

filter_virtual_devices(devices) == SelectSeq(devices, LAMBDA device : NotVirtualOf[device])

\* group_by_type(devices)[storage_type]
group_by_type(devices, storage_type) ==
    SelectSeq(devices, LAMBDA device : TypeOfDevice[device] = storage_type)

\* The findings on the two lists of one storage type (lines 965-993).
StorageDeviceFindings(storage_type, current_devices, baseline_devices) ==
    LET max_devices == IF Len(current_devices) > Len(baseline_devices)
                       THEN Len(current_devices) ELSE Len(baseline_devices)
        count_finding ==
            IF Len(current_devices) # Len(baseline_devices)
            THEN <<[kind |-> "count_mismatch", type |-> storage_type,
                    current |-> Len(current_devices), baseline |-> Len(baseline_devices)]>>
            ELSE <<>>
        at(i) ==
            IF i > Len(current_devices)
            THEN <<[kind |-> "missing_in_current", type |-> storage_type, index |-> i,
                    baseline |-> baseline_devices[i].model]>>
            ELSE IF i > Len(baseline_devices)
            THEN <<[kind |-> "extra_in_current", type |-> storage_type, index |-> i,
                    current |-> current_devices[i].model]>>
            ELSE IF current_devices[i].model # baseline_devices[i].model
            THEN <<[kind |-> "model_mismatch", type |-> storage_type, index |-> i,
                    current |-> current_devices[i].model,
                    baseline |-> baseline_devices[i].model]>>
            ELSE <<>>
    IN count_finding \o Flatten([i \in 1..max_devices |-> at(i)])

\* The body of the loop over the storage types (lines 961-993).
StorageTypeFindings(storage_type, current_filtered, baseline_filtered) ==
    StorageDeviceFindings(storage_type, group_by_type(current_filtered, storage_type),
                          group_by_type(baseline_filtered, storage_type))

\* The storage types whose loop body records something; the others leave
\* `differences` as it is wherever they come in the iteration.
StorageKeys(current, baseline) ==
    {storage_type \in StorageTypes :
        StorageTypeFindings(storage_type, filter_virtual_devices(current),
                            filter_virtual_devices(baseline)) # <<>>}

\* `order` is the order in which the set of storage types happens to be iterated.
StorageResult(current, baseline, current_filtered, baseline_filtered, differences) ==
    [raised |-> FALSE, error |-> "",
     status |-> IF differences = <<>> THEN "PASS" ELSE "FAIL",
     differences |-> differences,
     virtual_devices_filtered |->
         [current |-> Len(current) - Len(current_filtered),
          baseline |-> Len(baseline) - Len(baseline_filtered)]]

StorageDifferences(order, current_filtered, baseline_filtered) ==
    Flatten([i \in DOMAIN order |->
                StorageTypeFindings(order[i], current_filtered, baseline_filtered)])

compare_storage_devices(current, baseline, order) ==
    StorageResult(current, baseline, filter_virtual_devices(current),
                  filter_virtual_devices(baseline),
                  StorageDifferences(order, filter_virtual_devices(current),
                                     filter_virtual_devices(baseline)))

CompareStorageDevices ==
    /\ Idle
    /\ \E current, baseline \in StorageLists :
            \E order \in Perms(StorageKeys(current, baseline)) :
               /\ call' = [op |-> "compare_storage_devices", current |-> current,
                              baseline |-> baseline,
                              result |-> compare_storage_devices(current, baseline, order)]
               /\ EngineUnchanged

-----------------------------------------------------------------------------
(* compare_riser_cards *)

kw_missing_in_current == <<"m","i","s","s","i","n","g"," ","i","n"," ","c","u","r","r","e","n","t">>
kw_fru_serial_number_missing == <<"f","r","u"," ","s","e","r","i","a","l"," ","n","u","m","b","e","r"," ","m","i","s","s","i","n","g">>
kw_populated_risers_mismatch == <<"p","o","p","u","l","a","t","e","d"," ","r","i","s","e","r","s"," ","m","i","s","m","a","t","c","h">>
kw_population_status_mismatch == <<"p","o","p","u","l","a","t","i","o","n"," ","s","t","a","t","u","s"," ","m","i","s","m","a","t","c","h">>
txt_Required == <<"R","e","q","u","i","r","e","d">>
txt_Slot_ == <<"S","l","o","t"," ">>
txt_missing_tail == <<":"," ","M","i","s","s","i","n","g"," ","i","n"," ","c","u","r","r","e","n","t"," ","c","o","n","f","i","g","u","r","a","t","i","o","n">>
txt_extra_tail == <<":"," ","E","x","t","r","a"," ","r","i","s","e","r"," ","f","o","u","n","d"," ","(","n","o","t"," ","i","n"," ","b","a","s","e","l","i","n","e",")">>
txt_population_mid == <<":"," ","P","o","p","u","l","a","t","i","o","n"," ","s","t","a","t","u","s"," ","m","i","s","m","a","t","c","h"," ","-"," ","c","u","r","r","e","n","t","=">>
txt_baseline_eq == <<","," ","b","a","s","e","l","i","n","e","=">>
txt_populated == <<"p","o","p","u","l","a","t","e","d">>
txt_empty == <<"e","m","p","t","y">>
txt_product_mid == <<":"," ","F","R","U"," ","P","r","o","d","u","c","t"," ","N","a","m","e"," ","m","i","s","m","a","t","c","h"," ","-"," ","c","u","r","r","e","n","t","=">>
txt_manufacturer_mid == <<":"," ","F","R","U"," ","M","a","n","u","f","a","c","t","u","r","e","r"," ","m","i","s","m","a","t","c","h"," ","-"," ","c","u","r","r","e","n","t","=">>
txt_part_mid == <<":"," ","F","R","U"," ","P","a","r","t"," ","N","u","m","b","e","r"," ","m","i","s","m","a","t","c","h"," ","-"," ","c","u","r","r","e","n","t","=">>
txt_serial_mid == <<":"," ","F","R","U"," ","S","e","r","i","a","l"," ","N","u","m","b","e","r"," ","m","i","s","s","i","n","g"," ","o","r"," ","i","n","v","a","l","i","d"," ","-"," ","c","u","r","r","e","n","t","=">>
txt_pcie_mid == <<":"," ","P","C","I","e"," ","s","l","o","t","s"," ","c","o","u","n","t"," ","m","i","s","m","a","t","c","h"," ","-"," ","c","u","r","r","e","n","t","=">>
txt_total_head == <<"T","o","t","a","l"," ","p","o","p","u","l","a","t","e","d"," ","r","i","s","e","r","s"," ","m","i","s","m","a","t","c","h",":"," ","c","u","r","r","e","n","t","=">>
txt_R1 == <<"R","1">>
txt_R2 == <<"R","2">>
txt_P1 == <<"P","1">>
txt_P2 == <<"P","2">>
txt_M1 == <<"M","1">>
txt_M2 == <<"M","2">>
txt_N1 == <<"N","1">>
txt_N2 == <<"N","2">>
txt_S1 == <<"S","1">>

txt_RISER_SLOT_1 == <<"R","I","S","E","R","_","S","L","O","T","_","1">>
txt_Not_detected == <<"N","o","t"," ","d","e","t","e","c","t","e","d"," ","v","i","a"," ","F","R","U"," ","o","r"," ","P","C","I">>
txt_Not_available == <<"N","o","t"," ","a","v","a","i","l","a","b","l","e">>

\* pcie_slots stands for len(riser['pcie_slots']), the only use made of the list.
RiserCards ==
    { [slot |-> txt_R1, populated |-> TRUE, fru_product_name |-> txt_P1,
       fru_manufacturer |-> txt_M1, fru_part_number |-> txt_N1,
       fru_serial_number |-> txt_S1, pcie_slots |-> 1],
      [slot |-> txt_R1, populated |-> TRUE, fru_product_name |-> txt_P1,
       fru_manufacturer |-> txt_M1, fru_part_number |-> txt_N1,
       fru_serial_number |-> txt_Required, pcie_slots |-> 1],
      [slot |-> txt_R1, populated |-> TRUE, fru_product_name |-> txt_P1,
       fru_manufacturer |-> txt_M1, fru_part_number |-> txt_N1,
       fru_serial_number |-> <<>>, pcie_slots |-> 2],
      [slot |-> txt_R1, populated |-> TRUE, fru_product_name |-> txt_P2,
       fru_manufacturer |-> txt_M2, fru_part_number |-> txt_N2,
       fru_serial_number |-> txt_S1, pcie_slots |-> 1],
      [slot |-> txt_R1, populated |-> FALSE, fru_product_name |-> <<>>,
       fru_manufacturer |-> <<>>, fru_part_number |-> <<>>,
       fru_serial_number |-> <<>>, pcie_slots |-> 0],
      [slot |-> txt_R2, populated |-> TRUE, fru_product_name |-> txt_P1,
       fru_manufacturer |-> txt_M1, fru_part_number |-> txt_N1,
       fru_serial_number |-> txt_S1, pcie_slots |-> 1] }

RiserLists == SeqsUpTo(RiserCards, MaxLen)

\* The f-strings of lines 1035-1110.
MissingMessage(slot) == txt_Slot_ \o slot \o txt_missing_tail
ExtraMessage(slot) == txt_Slot_ \o slot \o txt_extra_tail
PopulationMessage(slot, curr_populated, base_populated) ==
    txt_Slot_ \o slot \o txt_population_mid
        \o (IF curr_populated THEN txt_populated ELSE txt_empty) \o txt_baseline_eq
        \o (IF base_populated THEN txt_populated ELSE txt_empty)
FieldMessage(slot, middle, curr, base) ==
    txt_Slot_ \o slot \o middle \o Quoted(curr) \o txt_baseline_eq \o Quoted(base)
SerialMessage(slot, curr_serial) == txt_Slot_ \o slot \o txt_serial_mid \o Quoted(curr_serial)
PcieMessage(slot, curr, base) ==
    txt_Slot_ \o slot \o txt_pcie_mid \o IntText(curr) \o txt_baseline_eq \o IntText(base)
TotalMessage(curr, base) ==
    txt_total_head \o IntText(curr) \o txt_baseline_eq \o IntText(base)

\* The test without the keyword of the serial number.
IsCriticalDifferenceButSerial(diff) ==
    \E keyword \in {kw_missing_in_current, kw_populated_risers_mismatch,
                    kw_population_status_mismatch} :
        Contains(Lower(diff), keyword)

\* The test of lines 1116-1119 on the text of a difference.
IsCriticalDifference(diff) ==
    \E keyword \in {kw_missing_in_current, kw_fru_serial_number_missing,
                    kw_populated_risers_mismatch, kw_population_status_mismatch} :
        Contains(Lower(diff), keyword)

\* Every text compare_riser_cards can record for the riser cards of the model,
\* and the test of lines 1116-1119 on each, computed once.
RiserMessages ==
    LET slots == {r.slot : r \in RiserCards} \cup {txt_RISER_SLOT_1}
        products == {r.fru_product_name : r \in RiserCards}
        manufacturers == {r.fru_manufacturer : r \in RiserCards}
        parts == {r.fru_part_number : r \in RiserCards}
        serials == {r.fru_serial_number : r \in RiserCards}
        pcie == {r.pcie_slots : r \in RiserCards}
    IN {MissingMessage(s) : s \in slots}
       \cup {ExtraMessage(s) : s \in slots}
       \cup {PopulationMessage(s, c, b) : s \in slots, c \in BOOLEAN, b \in BOOLEAN}
       \cup {FieldMessage(s, txt_product_mid, c, b) : s \in slots, c \in products, b \in products}
       \cup {FieldMessage(s, txt_manufacturer_mid, c, b) :
                s \in slots, c \in manufacturers, b \in manufacturers}
       \cup {FieldMessage(s, txt_part_mid, c, b) : s \in slots, c \in parts, b \in parts}
       \cup {SerialMessage(s, c) : s \in slots, c \in serials}
       \cup {PcieMessage(s, c, b) : s \in slots, c \in pcie, b \in pcie}
       \cup {TotalMessage(c, b) : c \in 0..MaxLen, b \in 0..MaxLen}

CriticalDifferenceOf == [diff \in RiserMessages |-> IsCriticalDifference(diff)]

NewRiserScan == [differences |-> <<>>, populated_current |-> 0, populated_baseline |-> 0]

Noted(acc, kind, slot, message) ==
    [acc EXCEPT !.differences = Append(@, [kind |-> kind, slot |-> slot, message |-> message])]

\* The FRU checks of a slot populated on both sides (lines 1059-1103).
RiserFruChecks(acc, slot, current_riser, baseline_riser) ==
    LET after_product ==
            IF current_riser.fru_product_name # baseline_riser.fru_product_name
            THEN Noted(acc, "product_name_mismatch", slot,
                       FieldMessage(slot, txt_product_mid, current_riser.fru_product_name,
                                    baseline_riser.fru_product_name))
            ELSE acc
        after_manufacturer ==
            IF current_riser.fru_manufacturer # baseline_riser.fru_manufacturer
            THEN Noted(after_product, "manufacturer_mismatch", slot,
                       FieldMessage(slot, txt_manufacturer_mid, current_riser.fru_manufacturer,
                                    baseline_riser.fru_manufacturer))
            ELSE after_product
        after_part ==
            IF current_riser.fru_part_number # baseline_riser.fru_part_number
            THEN Noted(after_manufacturer, "part_number_mismatch", slot,
                       FieldMessage(slot, txt_part_mid, current_riser.fru_part_number,
                                    baseline_riser.fru_part_number))
            ELSE after_manufacturer
        after_serial ==
            IF current_riser.fru_serial_number = <<>>
               \/ current_riser.fru_serial_number = txt_Required
            THEN Noted(after_part, "serial_number_missing", slot,
                       SerialMessage(slot, current_riser.fru_serial_number))
            ELSE after_part
    IN IF current_riser.pcie_slots # baseline_riser.pcie_slots
       THEN Noted(after_serial, "pcie_slots_count_mismatch", slot,
                  PcieMessage(slot, current_riser.pcie_slots, baseline_riser.pcie_slots))
       ELSE after_serial

\* The body of the loop over the sorted slots (lines 1030-1103).
RiserSlotStep(acc, slot, current_by_slot, baseline_by_slot) ==
    IF slot \notin DOMAIN current_by_slot
    THEN Noted(acc, "missing", slot, MissingMessage(slot))
    ELSE IF slot \notin DOMAIN baseline_by_slot
    THEN Noted(acc, "extra", slot, ExtraMessage(slot))
    ELSE LET current_riser == current_by_slot[slot]
             baseline_riser == baseline_by_slot[slot]
             curr_populated == current_riser.populated
             base_populated == baseline_riser.populated
             counted ==
                 [acc EXCEPT
                     !.populated_current = IF curr_populated THEN @ + 1 ELSE @,
                     !.populated_baseline = IF base_populated THEN @ + 1 ELSE @]
         IN IF curr_populated # base_populated
            THEN Noted(counted, "population_status_mismatch", slot,
                       PopulationMessage(slot, curr_populated, base_populated))
            ELSE IF curr_populated /\ base_populated
            THEN RiserFruChecks(counted, slot, current_riser, baseline_riser)
            ELSE counted

compare_riser_cards(current, baseline) ==
    LET current_by_slot == DictBy(current, "slot")
        baseline_by_slot == DictBy(baseline, "slot")
        all_slots == DOMAIN current_by_slot \cup DOMAIN baseline_by_slot
        scanned ==
            FoldLeft(LAMBDA acc, slot : RiserSlotStep(acc, slot, current_by_slot,
                                                      baseline_by_slot),
                     NewRiserScan, Sorted(all_slots))
        totalled ==
            IF scanned.populated_current # scanned.populated_baseline
            THEN Noted(scanned, "total_populated_mismatch", <<>>,
                       TotalMessage(scanned.populated_current, scanned.populated_baseline))
            ELSE scanned
        differences == totalled.differences
        critical_differences ==
            SelectSeq(differences, LAMBDA diff : CriticalDifferenceOf[diff.message])
    IN [raised |-> FALSE, error |-> "",
        status |-> IF critical_differences # <<>> THEN "FAIL"
                   ELSE IF differences # <<>> THEN "WARNING"
                   ELSE "PASS",
        differences |-> differences,
        critical_differences |-> critical_differences,
        current_populated |-> totalled.populated_current,
        baseline_populated |-> totalled.populated_baseline]

CompareRiserCards ==
    /\ Idle
    /\ \E current, baseline \in RiserLists :
           /\ call' = [op |-> "compare_riser_cards", current |-> current,
                          baseline |-> baseline,
                          result |-> compare_riser_cards(current, baseline)]
           /\ EngineUnchanged

-----------------------------------------------------------------------------
(* The comparators invoked on arbitrary pairs of entity lists *)

InitCompare == call = NoCall /\ InitEngine

NextCompare ==
    \/ CompareProcessors
    \/ CompareMemory
    \/ ComparePciDevices
    \/ CompareUsbDevices
    \/ CompareStorageDevices
    \/ CompareRiserCards
    \/ Return

SpecCompare == InitCompare /\ [][NextCompare]_vars

-----------------------------------------------------------------------------
(* Properties of the comparators *)

ComparatorOps ==
    {"compare_processors", "compare_memory", "compare_pci_devices",
     "compare_usb_devices", "compare_storage_devices", "compare_riser_cards"}

ComparatorCalled == call.op \in ComparatorOps
ComparatorReturned == ComparatorCalled /\ ~call.result.raised
ReflexiveCall == ComparatorCalled /\ call.current = call.baseline

\* The slots of a riser list whose effective (last) entry is populated and has
\* no serial number or the placeholder "Required".
SlotsWithoutSerial(risers) ==
    {risers[i].slot : i \in
        {i \in DOMAIN risers :
            /\ \A j \in DOMAIN risers : risers[j].slot = risers[i].slot => j <= i
            /\ risers[i].populated
            /\ risers[i].fru_serial_number \in {<<>>, txt_Required}}}

\* C1 as stated: each of the six comparators, given current = baseline = S,
\* returns status PASS and an empty differences list, for every S.
ReflexiveComparisonPasses ==
    ReflexiveCall =>
        /\ ~call.result.raised
        /\ call.result.status = "PASS"
        /\ call.result.differences = <<>>

\* C1, amended: given current = baseline = S every comparator returns; the
\* result is PASS with no differences, except that compare_riser_cards returns
\* FAIL with exactly one serial-number difference for each slot of S whose
\* populated riser has an empty or "Required" serial number.
ReflexiveComparisonPassesButForSerials ==
    ReflexiveCall =>
        LET result == call.result
            unserialled ==
                IF call.op = "compare_riser_cards" THEN SlotsWithoutSerial(call.current)
                ELSE {}
        IN /\ ~result.raised
           /\ unserialled = {} =>
                 result.status = "PASS" /\ result.differences = <<>>
           /\ unserialled # {} =>
                 /\ result.status = "FAIL"
                 /\ Len(result.differences) = Cardinality(unserialled)
                 /\ \A i \in DOMAIN result.differences :
                       /\ result.differences[i].kind = "serial_number_missing"
                       /\ result.differences[i].slot \in unserialled

\* Two populated risers with serial numbers compared with themselves.
ReflexiveRiserWitness ==
    /\ call.op = "compare_riser_cards"
    /\ call.current = call.baseline
    /\ Len(call.current) = 2
    /\ call.current[1].slot # call.current[2].slot
    /\ \A i \in 1..2 : call.current[i].populated
    /\ call.result.status = "PASS"

\* The status the specification attaches to a finding of each comparator.
SeverityOf(op, finding) ==
    CASE op = "compare_processors" ->
            IF finding.kind = "socket_extra" THEN "WARNING" ELSE "FAIL"
      [] op = "compare_memory" ->
            IF finding.type = "total_memory_mismatch" THEN "FAIL" ELSE "WARNING"
      [] op = "compare_pci_devices" ->
            IF finding.kind \in {"class_count_mismatch", "device_missing"}
            THEN "FAIL" ELSE "WARNING"
      [] op = "compare_usb_devices" ->
            IF finding.expected > finding.found THEN "FAIL" ELSE "WARNING"
      [] op = "compare_storage_devices" -> "FAIL"
      [] op = "compare_riser_cards" ->
            IF finding.kind \in {"missing", "population_status_mismatch",
                                 "serial_number_missing", "total_populated_mismatch"}
            THEN "FAIL" ELSE "WARNING"

\* The highest of PASS and a set of statuses in the order PASS < WARNING < FAIL.
HighestFromPass(statuses) ==
    CHOOSE s \in statuses \cup {"PASS"} :
        \A other \in statuses \cup {"PASS"} : StatedOrder[other] <= StatedOrder[s]

\* C3: in the result a comparator returns, status is the escalation, from PASS,
\* of the severities of the findings in differences, and so status is PASS
\* exactly when differences is empty.
StatusIsEscalationOfFindings ==
    ComparatorReturned =>
        LET differences == call.result.differences
        IN /\ call.result.status =
                 HighestFromPass({SeverityOf(call.op, differences[i]) :
                                     i \in DOMAIN differences})
           /\ call.result.status = "PASS" <=> differences = <<>>

\* A PCI comparison whose differences hold a WARNING finding and a FAIL finding.
MixedSeverityWitness ==
    /\ call.op = "compare_pci_devices"
    /\ ~call.result.raised
    /\ \E i, j \in DOMAIN call.result.differences :
          /\ SeverityOf(call.op, call.result.differences[i]) = "WARNING"
          /\ SeverityOf(call.op, call.result.differences[j]) = "FAIL"
    /\ call.result.status = "FAIL"

-----------------------------------------------------------------------------
(* perform_full_diff *)

cpu_0 == [socket |-> "CPU0", model |-> "Xeon-A", cores |-> "8", threads |-> "16"]
cpu_1 == [socket |-> "CPU1", model |-> "Xeon-A", cores |-> "8", threads |-> "16"]
dimm_A1 == [slot |-> txt_A1, size |-> txt_32_GB, populated |-> TRUE]
dimm_B1 == [slot |-> txt_B1, size |-> txt_32_GB, populated |-> TRUE]
empty_A1 == [slot |-> txt_A1, size |-> txt_No_Module_Installed, populated |-> FALSE]
empty_B1 == [slot |-> txt_B1, size |-> txt_No_Module_Installed, populated |-> FALSE]
nic_0 == [bdf |-> "01:00.0", description |-> "I350 Gigabit", class |-> txt_Ethernet_controller_0200]
host_bridge == [bdf |-> "00:00.0", description |-> "Sky Lake-E DMI3", class |-> txt_Host_bridge_0600]
root_hub == [vid_pid |-> "1d6b:0002", description |-> txt_root_hub, vendor |-> <<>>]
nvme_0 == [name |-> txt_nvme0n1, device |-> txt_nvme0n1, model |-> txt_Micron_7450,
           size |-> txt_1_7T, transport |-> <<>>]
sata_0 == [name |-> txt_sda, device |-> txt_sda, model |-> txt_ST4000_SATA,
           size |-> txt_1_7T, transport |-> <<>>]
riser_1 == [slot |-> txt_R1, populated |-> TRUE, fru_product_name |-> txt_P1,
            fru_manufacturer |-> txt_M1, fru_part_number |-> txt_N1,
            fru_serial_number |-> txt_S1, pcie_slots |-> 1]

\* The record get_riser_info supplies when neither FRU nor PCI shows a riser
\* (lines 331-343).
RiserPlaceholder ==
    [slot |-> txt_RISER_SLOT_1, populated |-> FALSE, fru_product_name |-> txt_Not_detected,
     fru_manufacturer |-> txt_Unknown, fru_part_number |-> txt_Unknown,
     fru_serial_number |-> txt_Not_available, pcie_slots |-> 0]

\* Baselines as _load_baseline returns them: one list per component.
BaselineConfigs ==
    { [processors |-> <<cpu_0, cpu_1>>, memory_modules |-> <<dimm_A1, empty_B1>>,
       pci_devices |-> <<nic_0, host_bridge>>, usb_devices |-> <<root_hub>>,
       storage_devices |-> <<nvme_0, sata_0>>, riser_cards |-> <<riser_1>>],
      [processors |-> <<cpu_0, cpu_0>>, memory_modules |-> <<dimm_A1, dimm_B1>>,
       pci_devices |-> <<nic_0>>, usb_devices |-> <<root_hub, root_hub>>,
       storage_devices |-> <<nvme_0>>,
       riser_cards |-> <<[riser_1 EXCEPT !.fru_serial_number = txt_Required]>>] }

\* What a collector supplies: the parsed list, or the empty list when its
\* command fails (lines 26-27 and 47-49, and the same in each collector).
Supplied(list) == [failed |-> FALSE, list |-> list]
Failed == [failed |-> TRUE, list |-> <<>>]

CollectedProcessors ==
    { Supplied(<<cpu_0, cpu_1>>), Supplied(<<[cpu_0 EXCEPT !.model = "Xeon-B"], cpu_1>>),
      Supplied(<<[cpu_0 EXCEPT !.cores = "4"], cpu_1>>), Failed }
CollectedMemory ==
    { Supplied(<<dimm_A1, empty_B1>>), Supplied(<<empty_A1, dimm_B1>>),
      Supplied(<<[dimm_A1 EXCEPT !.size = txt_16_GB], empty_B1>>), Failed }
CollectedPci ==
    { Supplied(<<nic_0, host_bridge>>),
      Supplied(<<[nic_0 EXCEPT !.description = "X710 10GbE"], host_bridge>>), Failed }
CollectedUsb == { Supplied(<<root_hub>>), Supplied(<<root_hub, root_hub>>), Failed }
CollectedStorage == { Supplied(<<nvme_0, sata_0>>), Supplied(<<nvme_0>>), Failed }

\* get_riser_info never supplies an empty list: it falls back to the placeholder.
CollectedRisers ==
    { Supplied(<<riser_1>>), Supplied(<<[riser_1 EXCEPT !.fru_product_name = txt_P2]>>),
      [failed |-> TRUE, list |-> <<RiserPlaceholder>>] }

ComponentNames ==
    <<"processors", "memory", "pci_devices", "usb_devices", "storage_devices", "riser_cards">>

\* The chain with WARNING tested before FAIL.
OverallStatusWarningFirst(all_statuses) ==
    IF "WARNING" \in Range(all_statuses) THEN "WARNING"
    ELSE IF "FAIL" \in Range(all_statuses) THEN "FAIL"
    ELSE "PASS"

\* Lines 1193-1198.
OverallStatus(all_statuses) ==
    IF "FAIL" \in Range(all_statuses) THEN "FAIL"
    ELSE IF "WARNING" \in Range(all_statuses) THEN "WARNING"
    ELSE "PASS"

CountOf(all_statuses, status) ==
    Cardinality({i \in DOMAIN all_statuses : all_statuses[i] = status})

\* The report of lines 1188-1246 over the six comparators' results. scan_info and
\* current_config carry dates and the collected lists and are left out.
DiffReport(component_results) ==
    LET all_statuses == [i \in DOMAIN ComponentNames |->
                            component_results[ComponentNames[i]].status]
    IN [overall_status |-> OverallStatus(all_statuses),
        component_results |-> component_results,
        summary |->
            [total_components_checked |->
                 Len(all_statuses) - CountOf(all_statuses, "UNKNOWN"),
             components_passed |-> CountOf(all_statuses, "PASS"),
             components_warning |-> CountOf(all_statuses, "WARNING"),
             components_failed |-> CountOf(all_statuses, "FAIL"),
             total_differences |->
                 SumSeq([i \in DOMAIN ComponentNames |->
                            Len(component_results[ComponentNames[i]].differences)])]]

\* Lines 1149-1185 once compare_processors is over: its exception leaves
\* perform_full_diff, otherwise the other five comparators run.
CompareComponents(cpu_diff, baseline, collected, orders) ==
    IF cpu_diff.raised THEN [raised |-> TRUE, error |-> cpu_diff.error]
    ELSE [raised |-> FALSE, error |-> "",
          report |->
              DiffReport(
                  [processors |-> cpu_diff,
                   memory |-> compare_memory(collected.memory_modules.list,
                                             baseline.memory_modules),
                   pci_devices |->
                       compare_pci_devices(collected.pci_devices.list,
                                           baseline.pci_devices, orders.pci_devices),
                   usb_devices |->
                       compare_usb_devices(collected.usb_devices.list,
                                           baseline.usb_devices, orders.usb_devices),
                   storage_devices |->
                       compare_storage_devices(collected.storage_devices.list,
                                               baseline.storage_devices,
                                               orders.storage_devices),
                   riser_cards |-> compare_riser_cards(collected.riser_cards.list,
                                                       baseline.riser_cards)])]

\* perform_full_diff on the collected lists: the exception that leaves it, or the
\* report it stores and returns.
perform_full_diff(baseline, collected, orders) ==
    CompareComponents(compare_processors(collected.processors.list, baseline.processors,
                                         orders.processors),
                      baseline, collected, orders)

\* self.diff_results and self.overall_status are assigned only when the
\* comparison returns (lines 1193-1198 and 1221-1246).
StoreDiff(collected, result) ==
    /\ call' = [op |-> "perform_full_diff", collected |-> collected, result |-> result]
    /\ overall_status' =
           IF result.raised THEN overall_status ELSE result.report.overall_status
    /\ diff_results' = IF result.raised THEN diff_results ELSE result.report
    /\ UNCHANGED <<baseline_config, limits, validation_results>>

\* The dictionary collect_current_config returns (lines 337-356).
CurrentConfig(processors, memory_modules, pci_devices, usb_devices, storage_devices, riser_cards) ==
    [processors |-> processors, memory_modules |-> memory_modules,
     pci_devices |-> pci_devices, usb_devices |-> usb_devices,
     storage_devices |-> storage_devices, riser_cards |-> riser_cards]

PerformFullDiff ==
    /\ Idle
    /\ \E processors \in CollectedProcessors, memory_modules \in CollectedMemory,
          pci_devices \in CollectedPci, usb_devices \in CollectedUsb,
          storage_devices \in CollectedStorage, riser_cards \in CollectedRisers :
        \E processor_order \in
              Perms(ProcessorKeys(processors.list, baseline_config.processors)),
           pci_order \in Perms(PciKeys(pci_devices.list, baseline_config.pci_devices)),
           usb_order \in Perms(UsbKeys(usb_devices.list, baseline_config.usb_devices)),
           storage_order \in
              Perms(StorageKeys(storage_devices.list, baseline_config.storage_devices)) :
            StoreDiff(CurrentConfig(processors, memory_modules, pci_devices, usb_devices,
                                 storage_devices, riser_cards),
                      perform_full_diff(
                          baseline_config,
                          CurrentConfig(processors, memory_modules, pci_devices, usb_devices,
                                     storage_devices, riser_cards),
                          [processors |-> processor_order, pci_devices |-> pci_order,
                           usb_devices |-> usb_order, storage_devices |-> storage_order]))

InitDiff ==
    /\ call = NoCall
    /\ baseline_config \in BaselineConfigs
    /\ overall_status = "UNKNOWN"
    /\ diff_results = EmptyDict
    /\ limits = EmptyDict
    /\ validation_results = EmptyDict

\* The caller builds one engine for one comparison (stage2.py lines 2176-2179,
\* __init__ at lines 189-199): once a comparison is over, the next one starts
\* from a newly constructed engine.
ConstructHardwareDiff ==
    /\ call # NoCall
    /\ call' = NoCall
    /\ baseline_config' \in BaselineConfigs
    /\ overall_status' = "UNKNOWN"
    /\ diff_results' = EmptyDict
    /\ UNCHANGED <<limits, validation_results>>

NextDiff ==
    \/ PerformFullDiff
    \/ ConstructHardwareDiff

SpecDiff == InitDiff /\ [][NextDiff]_vars

-----------------------------------------------------------------------------
(* Properties of perform_full_diff *)

DiffCalled == call.op = "perform_full_diff"
DiffReturned == DiffCalled /\ ~call.result.raised

\* C4 as stated: for every input, comparators that raise included, the aggregator
\* returns a report carrying overall_status and no exception leaves the call.
DiffAlwaysReports ==
    DiffCalled =>
        /\ ~call.result.raised
        /\ "overall_status" \in DOMAIN call.result.report

SomeCollectorFailed ==
    \E component \in DOMAIN call.collected : call.collected[component].failed

\* C6 as stated: when a hardware collector fails and supplies nothing, the report
\* the aggregator returns has overall status ERROR and never FAIL.
CollectorFailureReportsError ==
    (DiffReturned /\ SomeCollectorFailed) =>
        /\ call.result.report.overall_status = "ERROR"
        /\ call.result.report.overall_status # "FAIL"

\* The six component statuses of a report, in the order of all_statuses.
StatusesOf(report) ==
    [i \in DOMAIN ComponentNames |-> report.component_results[ComponentNames[i]].status]

\* The statuses a comparator returns (lines 360-394, 996, 1122-1127).
ComparatorStatuses == {"PASS", "WARNING", "FAIL"}

\* C8: the overall_status perform_full_diff writes is the fold of _escalate_status,
\* from PASS, over the statuses of processors, memory, pci_devices, usb_devices,
\* storage_devices and riser_cards, and the chain that computes it agrees with
\* that fold on every combination of statuses the comparators can return.
OverallIsEscalationFold ==
    DiffReturned =>
        /\ overall_status =
              FoldLeft(escalate_status, "PASS", StatusesOf(call.result.report))
        /\ call.result.report.overall_status = overall_status
        /\ diff_results = call.result.report
        /\ \A all_statuses \in [DOMAIN ComponentNames -> ComparatorStatuses] :
              OverallStatus(all_statuses) = FoldLeft(escalate_status, "PASS", all_statuses)

\* A comparison with a WARNING component listed before a FAIL component.
WarningThenFailWitness ==
    /\ DiffReturned
    /\ \E i, j \in DOMAIN ComponentNames :
          /\ i < j
          /\ StatusesOf(call.result.report)[i] = "WARNING"
          /\ StatusesOf(call.result.report)[j] = "FAIL"
    /\ overall_status = "FAIL"

-----------------------------------------------------------------------------
(* Sensor readings and limits *)

val_12_1 == <<"1","2",".","1">>
val_14_2 == <<"1","4",".","2">>
val_13_5 == <<"1","3",".","5">>
val_9_8 == <<"9",".","8">>
val_10_5 == <<"1","0",".","5">>
val_12c1 == <<"1","2",",","1">>
val_abc == <<"a","b","c">>
val_na == <<"n","a">>
val_NA == <<"N","A">>
val_3_3 == <<"3",".","3">>
val_4_5 == <<"4",".","5">>
val_45 == <<"4","5",".","0","0","0">>
val_85 == <<"8","5",".","0","0","0">>
val_105 == <<"1","0","5",".","0","0","0">>
val_m5 == <<"-","5",".","0","0","0">>
val_5000 == <<"5","0","0","0",".","0","0","0">>
val_50 == <<"5","0",".","0","0","0">>
val_25000 == <<"2","5","0","0","0">>
val_350 == <<"3","5","0">>
val_2500 == <<"2","5","0","0">>
val_0x0 == <<"0","x","0","1","8","0">>
unit_Volts == <<"V","o","l","t","s">>
unit_degrees_C == <<"d","e","g","r","e","e","s"," ","C">>
unit_RPM == <<"R","P","M">>
unit_Watts == <<"W","a","t","t","s">>
unit_discrete == <<"d","i","s","c","r","e","t","e">>
unit_rpm == <<"r","p","m">>
unit_watts == <<"w","a","t","t","s">>
st_ok == <<"o","k">>
st_OK == <<"O","K">>
st_nc == <<"n","c">>
st_nr == <<"n","r">>
st_ns == <<"n","s">>
st_cr == <<"c","r">>
word_na == <<"n","a">>
word_disabled == <<"d","i","s","a","b","l","e","d">>
word_n_a == <<"n","/","a">>
word_not_available == <<"n","o","t"," ","a","v","a","i","l","a","b","l","e">>
word_not_specified == <<"n","o","t"," ","s","p","e","c","i","f","i","e","d">>
word_unknown == <<"u","n","k","n","o","w","n">>

\* A row of `ipmitool sensor list` as collect_sensor_data stores it (lines 123-128).
Reading(value, unit, status) == [value |-> value, unit |-> unit, status |-> status]

\* A sensor that is not in the map.
Absent == [absent |-> TRUE]

\* What each sensor of the model may read.
ReadingsOf ==
    [P12V |-> {Absent, Reading(val_12_1, unit_Volts, st_ok),
               Reading(val_14_2, unit_Volts, st_ok), Reading(val_13_5, unit_Volts, st_ok),
               Reading(val_9_8, unit_Volts, st_ok), Reading(val_10_5, unit_Volts, st_ok),
               Reading(val_na, unit_Volts, st_ok), Reading(val_14_2, unit_Volts, st_nr),
               Reading(val_12_1, unit_Volts, st_cr), Reading(val_12c1, unit_Volts, st_OK),
               Reading(val_abc, unit_Volts, st_ok)},
     P3V3 |-> {Absent, Reading(val_3_3, unit_Volts, st_ok),
               Reading(val_4_5, unit_Volts, st_ok)},
     CPU_TEMP |-> {Absent, Reading(val_45, unit_degrees_C, st_ok),
                   Reading(val_85, unit_degrees_C, st_ok),
                   Reading(val_105, unit_degrees_C, st_ok),
                   Reading(val_m5, unit_degrees_C, st_ok),
                   Reading(val_na, unit_degrees_C, st_nc),
                   Reading(val_na, unit_degrees_C, st_OK),
                   Reading(val_na, unit_degrees_C, st_cr),
                   Reading(val_45, unit_degrees_C, st_ns),
                   Reading(val_NA, unit_degrees_C, st_ok)},
     DIMM_TEMP |-> {Absent, Reading(val_45, unit_degrees_C, st_ok),
                    Reading(val_na, unit_degrees_C, st_cr)},
     FAN1 |-> {Absent, Reading(val_5000, unit_RPM, st_ok), Reading(val_50, unit_RPM, st_ok),
               Reading(val_25000, unit_RPM, st_ok), Reading(val_5000, unit_RPM, st_ns),
               Reading(val_50, unit_RPM, st_nr), Reading(val_5000, unit_RPM, st_cr),
               Reading(val_na, unit_RPM, st_ok)},
     FAN2 |-> {Absent, Reading(val_5000, unit_rpm, st_ok), Reading(val_50, unit_RPM, st_ok)},
     PSU_PIN |-> {Absent, Reading(val_350, unit_Watts, st_ok),
                  Reading(val_2500, unit_Watts, st_ok), Reading(val_350, unit_Watts, st_nr),
                  Reading(val_m5, unit_Watts, st_ok), Reading(val_350, unit_Watts, st_cr),
                  Reading(val_na, unit_Watts, st_ok)},
     PSU_POUT |-> {Absent, Reading(val_350, unit_watts, st_ok),
                   Reading(val_2500, unit_Watts, st_ok)},
     PSU1 |-> {Absent, Reading(val_0x0, unit_discrete, st_ok),
               Reading(val_0x0, unit_discrete, st_cr)}]

SensorNames == DOMAIN ReadingsOf

\* The readings of a healthy system.
NominalReadings ==
    [P12V |-> Reading(val_12_1, unit_Volts, st_ok), P3V3 |-> Reading(val_3_3, unit_Volts, st_ok),
     CPU_TEMP |-> Reading(val_45, unit_degrees_C, st_ok),
     DIMM_TEMP |-> Reading(val_45, unit_degrees_C, st_ok),
     FAN1 |-> Reading(val_5000, unit_RPM, st_ok), FAN2 |-> Reading(val_5000, unit_rpm, st_ok),
     PSU_PIN |-> Reading(val_350, unit_Watts, st_ok),
     PSU_POUT |-> Reading(val_350, unit_watts, st_ok),
     PSU1 |-> Reading(val_0x0, unit_discrete, st_ok)]

\* The sensor map holding the readings chosen for each name.
SensorMap(choice) ==
    [name \in {n \in DOMAIN choice : choice[n] # Absent} |-> choice[name]]

\* The choices of one reading for each name: any of its readings for the names
\* of `varying`, the nominal one for the others.
RECURSIVE ChoicesOver(_, _)
ChoicesOver(names, varying) ==
    IF names = {} THEN {<<>>}
    ELSE LET name == CHOOSE n \in names : TRUE
             options == IF name \in varying THEN ReadingsOf[name]
                        ELSE {NominalReadings[name]}
         IN {(name :> reading) @@ rest :
                reading \in options, rest \in ChoicesOver(names \ {name}, varying)}

SensorMaps(varying) == {SensorMap(choice) : choice \in ChoicesOver(SensorNames, varying)}

\* A value of the limits file: absent (None), a number, or a text where a number
\* is expected.
NoLimit == [kind |-> "none"]
Number(n) == [kind |-> "int", value |-> n]
TextLimit == [kind |-> "str"]

VoltageLimits(min, max, warn_min, warn_max) ==
    [kind |-> "dict", min |-> min, max |-> max, warn_min |-> warn_min, warn_max |-> warn_max]
TemperatureLimits(min, max, warn) ==
    [kind |-> "dict", min |-> min, max |-> max, warn |-> warn]
Entry(name, sensor_limits) == [name |-> name, limits |-> sensor_limits]
Expected(name, expected) == [name |-> name, expected |-> expected]
StatusList(items) == [kind |-> "list", items |-> items]

-----------------------------------------------------------------------------
(* Sensor validators *)

ACCEPTABLE_STATUSES == {st_ok, st_nc}
WARNING_STATUSES == {st_nr, st_ns}

is_sensor_status_ok(status) == Lower(status) \in ACCEPTABLE_STATUSES
is_sensor_status_warning(status) == Lower(status) \in WARNING_STATUSES

\* str.replace(old, new) for single characters
ReplaceChar(s, old, new) == [i \in 1..Len(s) |-> IF s[i] = old THEN new ELSE s[i]]

NoValue == [kind |-> "none", num |-> 0, scale |-> 0]

parse_sensor_value(value_str) ==
    LET value_lower == Strip(Lower(value_str))
        normalized_value == ReplaceChar(value_str, ",", ".")
    IN IF value_lower \in {word_na, word_disabled, word_n_a, word_not_available,
                           word_not_specified, word_unknown, <<>>}
       THEN NoValue
       ELSE IF FloatParses(normalized_value) THEN FloatValue(normalized_value)
       ELSE NoValue

SensorValues ==
    UNION {{reading.value : reading \in ReadingsOf[name] \ {Absent}} : name \in SensorNames}
ParsedValueOf == [value \in SensorValues |-> parse_sensor_value(value)]

\* _create_validation_result_dict, and whether the validator has raised.
NewValidation ==
    [raised |-> FALSE, error |-> "", actually_checked |-> 0, passed_sensors |-> 0,
     warning_sensors |-> 0, failed_sensors |-> 0, missing_sensors |-> 0,
     skipped_sensors |-> 0, violations |-> <<>>, status |-> "PASS"]

Counted(acc, counter) == [acc EXCEPT ![counter] = @ + 1]
Violated(acc, violation) == [acc EXCEPT !.violations = Append(@, violation)]
Raising(acc, error) == [acc EXCEPT !.raised = TRUE, !.error = error]

\* The warning bounds tried before the hard ones.
VoltageVerdictSoftFirst(voltage, sensor_limits) ==
    IF sensor_limits.warn_min.kind = "int" /\ FloatLess(voltage, sensor_limits.warn_min.value)
    THEN "VOLTAGE_WARNING_LOW"
    ELSE IF sensor_limits.warn_max.kind = "int"
            /\ FloatGreater(voltage, sensor_limits.warn_max.value)
    THEN "VOLTAGE_WARNING_HIGH"
    ELSE IF sensor_limits.min.kind = "int" /\ FloatLess(voltage, sensor_limits.min.value)
    THEN "UNDERVOLTAGE"
    ELSE IF sensor_limits.max.kind = "int" /\ FloatGreater(voltage, sensor_limits.max.value)
    THEN "OVERVOLTAGE"
    ELSE "PASSED"

\* The chain of lines 211-248: the first bound that is set and violated, in the
\* order min, max, warn_min, warn_max; comparing with a text raises TypeError.
VoltageVerdict(voltage, sensor_limits) ==
    IF sensor_limits.min.kind = "str" THEN "TypeError"
    ELSE IF sensor_limits.min.kind = "int" /\ FloatLess(voltage, sensor_limits.min.value)
    THEN "UNDERVOLTAGE"
    ELSE IF sensor_limits.max.kind = "str" THEN "TypeError"
    ELSE IF sensor_limits.max.kind = "int" /\ FloatGreater(voltage, sensor_limits.max.value)
    THEN "OVERVOLTAGE"
    ELSE IF sensor_limits.warn_min.kind = "str" THEN "TypeError"
    ELSE IF sensor_limits.warn_min.kind = "int"
            /\ FloatLess(voltage, sensor_limits.warn_min.value)
    THEN "VOLTAGE_WARNING_LOW"
    ELSE IF sensor_limits.warn_max.kind = "str" THEN "TypeError"
    ELSE IF sensor_limits.warn_max.kind = "int"
            /\ FloatGreater(voltage, sensor_limits.warn_max.value)
    THEN "VOLTAGE_WARNING_HIGH"
    ELSE "PASSED"

\* The bound a verdict was measured against.
LimitOf(verdict, sensor_limits) ==
    CASE verdict \in {"UNDERVOLTAGE", "UNDERTEMPERATURE"} -> sensor_limits.min.value
      [] verdict \in {"OVERVOLTAGE", "OVERTEMPERATURE"} -> sensor_limits.max.value
      [] verdict = "VOLTAGE_WARNING_LOW" -> sensor_limits.warn_min.value
      [] verdict = "VOLTAGE_WARNING_HIGH" -> sensor_limits.warn_max.value
      [] verdict = "WARNING_TEMPERATURE" -> sensor_limits.warn.value

\* Lines 205-248 for one sensor whose value was parsed.
CheckLimits(acc, sensor_name, value, sensor_limits, verdict) ==
    IF verdict = "TypeError" THEN Raising(acc, "TypeError")
    ELSE IF verdict = "PASSED" THEN Counted(acc, "passed_sensors")
    ELSE Violated(Counted(acc, IF verdict \in {"UNDERVOLTAGE", "OVERVOLTAGE",
                                               "UNDERTEMPERATURE", "OVERTEMPERATURE"}
                               THEN "failed_sensors" ELSE "warning_sensors"),
                  [sensor |-> sensor_name, type |-> verdict, value |-> value,
                   limit |-> LimitOf(verdict, sensor_limits)])

\* Lines 179-193 and 328-342: a status outside ACCEPTABLE_STATUSES.
StatusFinding(acc, sensor_name, status) ==
    IF is_sensor_status_warning(status)
    THEN Violated(Counted(acc, "warning_sensors"),
                  [sensor |-> sensor_name, type |-> "STATUS_WARNING"])
    ELSE Violated(acc, [sensor |-> sensor_name, type |-> "STATUS_ERROR"])

\* The body of the loop of validate_voltage_sensors (lines 153-248).
VoltageSensorStep(acc, item, sensors) ==
    IF acc.raised \/ item.name = "comment" THEN acc
    ELSE IF item.name \notin DOMAIN sensors
    THEN Violated(Counted(acc, "missing_sensors"), [sensor |-> item.name, type |-> "MISSING"])
    ELSE LET sensor_data == sensors[item.name]
             checked == Counted(acc, "actually_checked")
             voltage == ParsedValueOf[sensor_data.value]
         IN IF sensor_data.value = val_na
            THEN Violated(checked, [sensor |-> item.name, type |-> "UNAVAILABLE"])
            ELSE IF ~is_sensor_status_ok(sensor_data.status)
            THEN StatusFinding(checked, item.name, sensor_data.status)
            ELSE IF voltage.kind = "none"
            THEN Violated(checked, [sensor |-> item.name, type |-> "PARSE_ERROR"])
            ELSE IF item.limits.kind # "dict" THEN Raising(checked, "AttributeError")
            ELSE CheckLimits(checked, item.name, voltage, item.limits,
                             VoltageVerdict(voltage, item.limits))

\* Lines 250-254 and 392-396.
WithLimitStatus(acc) ==
    IF acc.raised THEN acc
    ELSE [acc EXCEPT !.status =
             IF acc.failed_sensors > 0 THEN "FAIL"
             ELSE IF acc.missing_sensors > 0 \/ acc.warning_sensors > 0 THEN "WARNING"
             ELSE @]

validate_voltage_sensors(sensor_config, sensors) ==
    WithLimitStatus(
        FoldLeft(LAMBDA acc, item : VoltageSensorStep(acc, item, sensors),
                 NewValidation, sensor_config.voltage_limits))

TemperatureVerdict(temperature, sensor_limits) ==
    IF sensor_limits.min.kind = "str" THEN "TypeError"
    ELSE IF sensor_limits.min.kind = "int" /\ FloatLess(temperature, sensor_limits.min.value)
    THEN "UNDERTEMPERATURE"
    ELSE IF sensor_limits.max.kind = "str" THEN "TypeError"
    ELSE IF sensor_limits.max.kind = "int"
            /\ FloatGreater(temperature, sensor_limits.max.value)
    THEN "OVERTEMPERATURE"
    ELSE IF sensor_limits.warn.kind = "str" THEN "TypeError"
    ELSE IF sensor_limits.warn.kind = "int"
            /\ FloatGreater(temperature, sensor_limits.warn.value)
    THEN "WARNING_TEMPERATURE"
    ELSE "PASSED"

\* Lines 268-291: a configured temperature sensor that is not in the map.
MissingTemperature(acc, sensor_name, validation_rules) ==
    IF validation_rules.kind # "dict" THEN Raising(acc, "AttributeError")
    ELSE IF sensor_name \in validation_rules.critical_sensors
    THEN Violated(Counted(acc, "missing_sensors"),
                  [sensor |-> sensor_name, type |-> "MISSING_CRITICAL"])
    ELSE IF sensor_name \in validation_rules.optional_sensors
    THEN Counted(acc, "skipped_sensors")
    ELSE Violated(Counted(acc, "missing_sensors"),
                  [sensor |-> sensor_name, type |-> "MISSING"])

\* Lines 296-325: a temperature sensor whose value is 'na'.
UnreadTemperature(acc, sensor_name, sensor_data, validation_rules) ==
    LET status == Lower(sensor_data.status)
    IN IF status \in {st_nc, st_nr} THEN Counted(acc, "skipped_sensors")
       ELSE IF status = st_ok
       THEN Violated(Counted(acc, "warning_sensors"),
                     [sensor |-> sensor_name, type |-> "SENSOR_DATA_INCONSISTENT"])
       ELSE IF validation_rules.kind # "dict" THEN Raising(acc, "AttributeError")
       ELSE IF sensor_name \in validation_rules.optional_sensors
       THEN Counted(acc, "skipped_sensors")
       ELSE Violated(acc, [sensor |-> sensor_name, type |-> "UNAVAILABLE"])

\* The body of the loop of validate_temperature_sensors (lines 264-390).
TemperatureSensorStep(acc, item, sensors, validation_rules) ==
    IF acc.raised \/ item.name = "comment" THEN acc
    ELSE IF item.name \notin DOMAIN sensors
    THEN MissingTemperature(acc, item.name, validation_rules)
    ELSE LET sensor_data == sensors[item.name]
             checked == Counted(acc, "actually_checked")
             temperature == ParsedValueOf[sensor_data.value]
         IN IF sensor_data.value = val_na
            THEN UnreadTemperature(checked, item.name, sensor_data, validation_rules)
            ELSE IF ~is_sensor_status_ok(sensor_data.status)
            THEN StatusFinding(checked, item.name, sensor_data.status)
            ELSE IF temperature.kind = "none"
            THEN Violated(checked, [sensor |-> item.name, type |-> "PARSE_ERROR"])
            ELSE IF item.limits.kind # "dict" THEN Raising(checked, "AttributeError")
            ELSE CheckLimits(checked, item.name, temperature, item.limits,
                             TemperatureVerdict(temperature, item.limits))

validate_temperature_sensors(sensor_config, sensors) ==
    WithLimitStatus(
        FoldLeft(LAMBDA acc, item :
                     TemperatureSensorStep(acc, item, sensors, sensor_config.validation_rules),
                 NewValidation, sensor_config.temperature_limits))

\* The body of the loops of validate_fan_sensors and validate_power_sensors (lines
\* 404-437 and 453-486): a sensor of the given unit, held to the range low..high.
RangeSensorStep(acc, sensor_name, sensor_data, unit, low, high) ==
    IF Lower(sensor_data.unit) # unit THEN acc
    ELSE LET checked == Counted(acc, "actually_checked")
             value == ParsedValueOf[sensor_data.value]
             warned == IF is_sensor_status_warning(sensor_data.status)
                       THEN Counted(checked, "warning_sensors") ELSE checked
         IN IF value.kind = "none" THEN Counted(checked, "skipped_sensors")
            ELSE IF ~is_sensor_status_ok(sensor_data.status)
                    /\ ~is_sensor_status_warning(sensor_data.status)
            THEN Violated(Counted(checked, "failed_sensors"),
                          [sensor |-> sensor_name, value |-> value,
                           status |-> sensor_data.status, issue |-> "status"])
            ELSE IF FloatLess(value, low) \/ FloatGreater(value, high)
            THEN Violated(Counted(warned, "failed_sensors"),
                          [sensor |-> sensor_name, value |-> value, issue |-> "range"])
            ELSE Counted(warned, "passed_sensors")

\* Lines 439-445 and 488-494.
WithRangeStatus(acc) ==
    [acc EXCEPT !.status = IF acc.failed_sensors > 0 THEN "FAIL"
                           ELSE IF acc.warning_sensors > 0 THEN "WARNING"
                           ELSE "PASS"]

\* The names of the map whose unit, lowercased, is `unit`.
SensorsOfUnit(sensors, unit) == {name \in DOMAIN sensors : Lower(sensors[name].unit) = unit}

\* `order` is the order in which the map holds the sensors of the unit.
validate_fan_sensors(sensors, order) ==
    WithRangeStatus(
        FoldLeft(LAMBDA acc, name : RangeSensorStep(acc, name, sensors[name], unit_rpm,
                                                    100, 20000),
                 NewValidation, order))

validate_power_sensors(sensors, order) ==
    WithRangeStatus(
        FoldLeft(LAMBDA acc, name : RangeSensorStep(acc, name, sensors[name], unit_watts,
                                                    0, 2000),
                 NewValidation, order))

\* The body of the loop of validate_discrete_sensors (lines 506-540).
DiscreteSensorStep(acc, item, sensors, critical_sensors) ==
    IF acc.raised THEN acc
    ELSE IF item.name \notin DOMAIN sensors
    THEN Violated(acc, [sensor |-> item.name, type |-> "MISSING"])
    ELSE LET checked == Counted(acc, "actually_checked")
             actual_status == sensors[item.name].status
         IN IF item.expected.kind # "list" THEN Raising(checked, "TypeError")
            ELSE IF actual_status \in item.expected.items
            THEN Counted(checked, "passed_sensors")
            ELSE IF item.name \in critical_sensors
            THEN Violated(Counted(checked, "failed_sensors"),
                          [sensor |-> item.name, type |-> "CRITICAL_STATUS",
                           value |-> actual_status])
            ELSE Violated(Counted(checked, "warning_sensors"),
                          [sensor |-> item.name, type |-> "WARNING_STATUS",
                           value |-> actual_status])

\* Lines 542-546.
WithDiscreteStatus(acc) ==
    IF acc.raised THEN acc
    ELSE [acc EXCEPT !.status = IF acc.failed_sensors > 0 THEN "FAIL"
                                ELSE IF acc.warning_sensors > 0 THEN "WARNING"
                                ELSE @]

validate_discrete_sensors(sensor_config, sensors) ==
    WithDiscreteStatus(
        FoldLeft(LAMBDA acc, item :
                     DiscreteSensorStep(acc, item, sensors,
                                        sensor_config.discrete_sensors.critical_if_different),
                 NewValidation, sensor_config.discrete_sensors.acceptable_statuses))

-----------------------------------------------------------------------------
(* perform_full_validation *)

\* Limits files as _load_limits returns them. The lists under voltage_limits,
\* temperature_limits and acceptable_statuses keep the order of the file's keys.
LimitsConfigs ==
    { [voltage_limits |->
           <<Entry("comment", TextLimit),
             Entry("P12V", VoltageLimits(Number(10), Number(14), Number(11), Number(13))),
             Entry("P3V3", VoltageLimits(Number(3), Number(4), NoLimit, NoLimit))>>,
       temperature_limits |->
           <<Entry("CPU_TEMP", TemperatureLimits(Number(0), Number(100), Number(80))),
             Entry("DIMM_TEMP", TemperatureLimits(NoLimit, Number(95), Number(85)))>>,
       validation_rules |-> [kind |-> "dict", critical_sensors |-> {"CPU_TEMP"},
                             optional_sensors |-> {"DIMM_TEMP", "P3V3", "PSU1"}],
       discrete_sensors |-> [acceptable_statuses |-> <<Expected("PSU1", StatusList({st_ok}))>>,
                             critical_if_different |-> {"PSU1"}]],
      [voltage_limits |->
           <<Entry("P12V", VoltageLimits(Number(10), TextLimit, Number(11), Number(13))),
             Entry("P3V3", VoltageLimits(Number(3), Number(4), NoLimit, NoLimit))>>,
       temperature_limits |->
           <<Entry("comment", TextLimit),
             Entry("CPU_TEMP", TemperatureLimits(Number(0), Number(100), Number(80))),
             Entry("DIMM_TEMP", TemperatureLimits(NoLimit, Number(95), Number(85)))>>,
       validation_rules |-> [kind |-> "dict", critical_sensors |-> {},
                             optional_sensors |-> {}],
       discrete_sensors |-> [acceptable_statuses |->
                                 <<Expected("comment", TextLimit),
                                   Expected("PSU1", StatusList({st_ok})),
                                   Expected("PSU2", StatusList({st_ok, st_nc}))>>,
                             critical_if_different |-> {}]],
      [voltage_limits |->
           <<Entry("P12V", VoltageLimits(Number(10), Number(14), Number(15), Number(9))),
             Entry("P3V3", TextLimit)>>,
       temperature_limits |->
           <<Entry("CPU_TEMP", TemperatureLimits(Number(0), Number(100), TextLimit)),
             Entry("DIMM_TEMP", TemperatureLimits(NoLimit, NoLimit, NoLimit))>>,
       validation_rules |-> [kind |-> "str"],
       discrete_sensors |-> [acceptable_statuses |-> <<Expected("PSU1", Number(1))>>,
                             critical_if_different |-> {"PSU1"}]],
      [voltage_limits |-> <<>>, temperature_limits |-> <<>>,
       validation_rules |-> [kind |-> "dict", critical_sensors |-> {},
                             optional_sensors |-> {}],
       discrete_sensors |-> [acceptable_statuses |-> <<>>, critical_if_different |-> {}]] }

category_functions == <<"voltages", "temperatures", "fans", "power", "discrete">>

\* validation_func(sensors) for the category.
RunValidator(category_name, sensor_config, sensors, orders) ==
    CASE category_name = "voltages" -> validate_voltage_sensors(sensor_config, sensors)
      [] category_name = "temperatures" ->
            validate_temperature_sensors(sensor_config, sensors)
      [] category_name = "fans" -> validate_fan_sensors(sensors, orders.fans)
      [] category_name = "power" -> validate_power_sensors(sensors, orders.power)
      [] category_name = "discrete" -> validate_discrete_sensors(sensor_config, sensors)

Counters ==
    {"actually_checked", "passed_sensors", "warning_sensors", "failed_sensors",
     "missing_sensors", "skipped_sensors"}

\* The dictionary a validator returns.
ResultDict(result) ==
    [key \in Counters \cup {"violations", "status"} |-> result[key]]

\* The dictionary stored for a category whose validator raised (lines 605-615).
ErrorStub(error) ==
    [key \in Counters \cup {"violations", "status", "error"} |->
        CASE key = "status" -> "ERROR"
          [] key = "error" -> error
          [] key = "violations" -> <<>>
          [] OTHER -> 0]

\* What the loop keeps of one category: the validator's dictionary, or the stub
\* when it raised (lines 604-615).
StoreCategory(acc, category_name, category_result) ==
    [category_results |->
         acc.category_results @@
         (category_name :> IF category_result.raised
                           THEN ErrorStub(category_result.error)
                           ELSE ResultDict(category_result)),
     successful_categories |->
         acc.successful_categories + IF category_result.raised THEN 0 ELSE 1,
     evaluated |-> Append(acc.evaluated, category_name)]

\* A step that leaves out the categories after one that raised.
RunCategoryUntilError(acc, category_name, sensor_config, sensors, orders) ==
    IF \E done \in DOMAIN acc.category_results :
           acc.category_results[done].status = "ERROR"
    THEN acc
    ELSE StoreCategory(acc, category_name,
                       RunValidator(category_name, sensor_config, sensors, orders))

\* The body of the loop over category_functions (lines 600-615).
RunCategory(acc, category_name, sensor_config, sensors, orders) ==
    StoreCategory(acc, category_name,
                  RunValidator(category_name, sensor_config, sensors, orders))

\* The chain with FAIL tested before ERROR.
OverallValidationStatusFailFirst(all_statuses) ==
    IF "FAIL" \in Range(all_statuses) THEN "FAIL"
    ELSE IF "ERROR" \in Range(all_statuses) THEN "ERROR"
    ELSE IF "WARNING" \in Range(all_statuses) THEN "WARNING"
    ELSE "PASS"

\* Lines 627-634.
OverallValidationStatus(all_statuses) ==
    IF "ERROR" \in Range(all_statuses) THEN "ERROR"
    ELSE IF "FAIL" \in Range(all_statuses) THEN "FAIL"
    ELSE IF "WARNING" \in Range(all_statuses) THEN "WARNING"
    ELSE "PASS"

\* What collect_sensor_data gives: the sensor map, or the exception it raises
\* (lines 104-111).
Collected(sensors) == [raised |-> FALSE, sensors |-> sensors]
CollectionFailed == [raised |-> TRUE, error |-> "RuntimeError"]

\* The report built from the categories the loop has run (lines 617-653).
ValidationReport(sensors, ran) ==
    LET results == [i \in DOMAIN ran.evaluated |-> ran.category_results[ran.evaluated[i]]]
        all_statuses == [i \in DOMAIN results |-> results[i].status]
    IN [overall_status |-> OverallValidationStatus(all_statuses),
        summary |->
            [total_checked |->
                 SumSeq([i \in DOMAIN results |-> results[i].actually_checked]),
             total_passed |->
                 SumSeq([i \in DOMAIN results |-> results[i].passed_sensors]),
             total_violations |->
                 SumSeq([i \in DOMAIN results |-> Len(results[i].violations)]),
             categories_checked |-> ran.successful_categories],
        category_results |-> ran.category_results,
        evaluated |-> ran.evaluated,
        total_sensors_available |-> Cardinality(DOMAIN sensors),
        error_details |-> [error_type |-> "none"]]

\* The report of perform_full_validation (lines 554-667). validation_info carries
\* the file name and the date and is reduced to the count of sensors.
perform_full_validation(sensor_config, collection, orders) ==
    IF collection.raised
    THEN [overall_status |-> "ERROR",
          summary |-> [total_checked |-> 0, total_passed |-> 0, total_violations |-> 0,
                       categories_checked |-> 0],
          category_results |-> EmptyDict,
          evaluated |-> <<>>,
          total_sensors_available |-> 0,
          error_details |-> [error_type |-> "SENSOR_COLLECTION_FAILED",
                             error_message |-> collection.error,
                             stage |-> "collect_sensor_data"]]
    ELSE ValidationReport(
             collection.sensors,
             FoldLeft(LAMBDA acc, category_name :
                          RunCategory(acc, category_name, sensor_config,
                                      collection.sensors, orders),
                      [category_results |-> EmptyDict, successful_categories |-> 0,
                       evaluated |-> <<>>],
                      category_functions))

FanOrders(sensors) == Perms(SensorsOfUnit(sensors, unit_rpm))
PowerOrders(sensors) == Perms(SensorsOfUnit(sensors, unit_watts))

ValidateVoltageSensors ==
    /\ Idle
    /\ \E sensors \in SensorMaps({"P12V", "P3V3"}) :
           call' = [op |-> "validate_voltage_sensors", sensors |-> sensors,
                    result |-> validate_voltage_sensors(limits, sensors)]
    /\ EngineUnchanged

ValidateTemperatureSensors ==
    /\ Idle
    /\ \E sensors \in SensorMaps({"CPU_TEMP", "DIMM_TEMP"}) :
           call' = [op |-> "validate_temperature_sensors", sensors |-> sensors,
                    result |-> validate_temperature_sensors(limits, sensors)]
    /\ EngineUnchanged

ValidateFanSensors ==
    /\ Idle
    /\ \E sensors \in SensorMaps({"FAN1", "FAN2"}) :
          \E order \in FanOrders(sensors) :
             call' = [op |-> "validate_fan_sensors", sensors |-> sensors,
                      result |-> validate_fan_sensors(sensors, order)]
    /\ EngineUnchanged

ValidatePowerSensors ==
    /\ Idle
    /\ \E sensors \in SensorMaps({"PSU_PIN", "PSU_POUT"}) :
          \E order \in PowerOrders(sensors) :
             call' = [op |-> "validate_power_sensors", sensors |-> sensors,
                      result |-> validate_power_sensors(sensors, order)]
    /\ EngineUnchanged

ValidateDiscreteSensors ==
    /\ Idle
    /\ \E sensors \in SensorMaps({"PSU1"}) :
           call' = [op |-> "validate_discrete_sensors", sensors |-> sensors,
                    result |-> validate_discrete_sensors(limits, sensors)]
    /\ EngineUnchanged

\* The outcomes of collect_sensor_data the aggregator is run on.
Collections ==
    {CollectionFailed}
        \cup {Collected(sensors) :
                 sensors \in SensorMaps({"P12V", "CPU_TEMP"})
                             \cup SensorMaps({"FAN1", "PSU_PIN", "PSU1"})
                             \cup SensorMaps({"P3V3", "DIMM_TEMP", "FAN2", "PSU_POUT"})}

\* perform_full_validation keeps its report in a local and writes no attribute.
PerformFullValidation ==
    /\ Idle
    /\ \E collection \in Collections :
          \E fans \in (IF collection.raised THEN {<<>>} ELSE FanOrders(collection.sensors)),
             power \in (IF collection.raised THEN {<<>>}
                        ELSE PowerOrders(collection.sensors)) :
             call' = [op |-> "perform_full_validation", collection |-> collection,
                      orders |-> [fans |-> fans, power |-> power],
                      result |-> perform_full_validation(limits, collection,
                                                         [fans |-> fans, power |-> power])]
    /\ EngineUnchanged

\* The exit code main chooses from the overall status (lines 728-733).
ExitCode(status) ==
    IF status = "FAIL" THEN 1
    ELSE IF status = "WARNING" THEN 2
    ELSE 0

\* main (lines 692-737).  `step` is how far the run gets: "usage" when the
\* command line is too short (lines 702-710), "no_limits" when the constructor
\* raises on the limits file (line 714), "not_saved" when
\* save_validation_report raises (line 725), "saved" otherwise.
main(step, results) ==
    IF step = "usage" THEN [exit_code |-> 1, validated |-> FALSE, saved |-> FALSE]
    ELSE IF step = "no_limits" THEN [exit_code |-> 3, validated |-> FALSE, saved |-> FALSE]
    ELSE IF step = "not_saved"
         THEN [exit_code |-> 3, validated |-> TRUE, saved |-> FALSE, results |-> results]
    ELSE [exit_code |-> ExitCode(results.overall_status), validated |-> TRUE,
          saved |-> TRUE, results |-> results]

MainStopsEarly ==
    /\ Idle
    /\ \E step \in {"usage", "no_limits"} :
           call' = [op |-> "main", step |-> step, result |-> main(step, EmptyDict)]
    /\ EngineUnchanged

Main ==
    /\ Idle
    /\ \E step \in {"not_saved", "saved"}, collection \in Collections :
          \E fans \in (IF collection.raised THEN {<<>>} ELSE FanOrders(collection.sensors)),
             power \in (IF collection.raised THEN {<<>>}
                        ELSE PowerOrders(collection.sensors)) :
             call' = [op |-> "main", step |-> step,
                      result |-> main(step,
                                      perform_full_validation(
                                          limits, collection,
                                          [fans |-> fans, power |-> power]))]
    /\ EngineUnchanged

\* SensorValidator.__init__ (lines 22-31).
InitSensor ==
    /\ call = NoCall
    /\ limits \in LimitsConfigs
    /\ validation_results = EmptyDict
    /\ baseline_config = EmptyDict
    /\ overall_status = "UNKNOWN"
    /\ diff_results = EmptyDict

NextSensor ==
    \/ ValidateVoltageSensors
    \/ ValidateTemperatureSensors
    \/ ValidateFanSensors
    \/ ValidatePowerSensors
    \/ ValidateDiscreteSensors
    \/ PerformFullValidation
    \/ MainStopsEarly
    \/ Main
    \/ Return

SpecSensor == InitSensor /\ [][NextSensor]_vars

-----------------------------------------------------------------------------
(* The parsers on their own *)

MaxSizeLen == 4
MaxValueLen == 3

txt_1024_MB == <<"1","0","2","4"," ","M","B">>
txt_2048MB == <<"2","0","4","8","M","B">>
txt_garbage == <<"g","a","r","b","a","g","e">>
txt_3comma3 == <<"3",",","3">>
txt_1comma2comma3 == <<"1",",","2",",","3">>
txt_Disabled == <<"D","i","s","a","b","l","e","d">>
txt_infinity == <<"i","n","f","i","n","i","t","y">>

\* The size texts parse_memory_size is applied to.
SizeTexts ==
    SeqsUpTo({"1", "0", " ", "G", "M", "B", ".", "b"}, MaxSizeLen)
        \cup {txt_32_GB, txt_16_GB, txt_16384_MB, txt_1024_MB, txt_2048MB, txt_200GB,
              txt_80_5GB, txt_No_Module_Installed, txt_garbage}

\* The value texts _parse_sensor_value is applied to.
ValueTexts ==
    SeqsUpTo({"1", "5", ",", ".", " ", "-", "n", "a", "N"}, MaxValueLen)
        \cup {txt_3comma3, txt_1comma2comma3, txt_Disabled, txt_infinity, word_n_a,
              word_not_available, word_not_specified, word_unknown}

ParseMemorySize ==
    /\ Idle
    /\ \E size_str \in SizeTexts :
           call' = [op |-> "parse_memory_size", size_str |-> size_str,
                    result |-> parse_memory_size(size_str)]
    /\ EngineUnchanged

ParseSensorValue ==
    /\ Idle
    /\ \E value_str \in ValueTexts :
           call' = [op |-> "_parse_sensor_value", value_str |-> value_str,
                    result |-> parse_sensor_value(value_str)]
    /\ EngineUnchanged

InitParse == call = NoCall /\ InitEngine

NextParse ==
    \/ ParseMemorySize
    \/ ParseSensorValue
    \/ Return

SpecParse == InitParse /\ [][NextParse]_vars

-----------------------------------------------------------------------------
(* Properties of the sensor validators and of perform_full_validation *)

FullValidationRan == call.op = "perform_full_validation" /\ ~call.collection.raised

\* C5: when the validator of a category raises, the category's entry is an ERROR
\* stub carrying the error with all counters 0 and no violations; every category
\* is still evaluated exactly once, in the order voltages, temperatures, fans,
\* power, discrete, and each of the others has the result its validator gives
\* on its own.
RaisingCategoryIsStubbed ==
    FullValidationRan =>
        /\ call.result.evaluated =
               <<"voltages", "temperatures", "fans", "power", "discrete">>
        /\ \A category \in DOMAIN call.result.category_results :
              LET alone == RunValidator(category, limits, call.collection.sensors,
                                        call.orders)
                  entry == call.result.category_results[category]
              IN IF alone.raised
                 THEN /\ entry.status = "ERROR"
                      /\ entry.error = alone.error
                      /\ \A counter \in Counters : entry[counter] = 0
                      /\ entry.violations = <<>>
                 ELSE /\ "error" \notin DOMAIN entry
                      /\ \A key \in DOMAIN entry : entry[key] = alone[key]

\* The voltage validator raised and the temperature validator, run after it,
\* reported a failure of its own.
StubbedVoltagesWitness ==
    /\ FullValidationRan
    /\ call.result.category_results["voltages"].status = "ERROR"
    /\ call.result.category_results["temperatures"].status = "FAIL"
    /\ call.result.category_results["temperatures"].violations # <<>>

\* C7: when collection succeeds, overall_status is the highest of the five
\* category statuses in the order PASS < WARNING < FAIL < ERROR.
OverallValidationIsHighest ==
    FullValidationRan =>
        call.result.overall_status =
            HighestFromPass({call.result.category_results[category].status :
                                category \in DOMAIN call.result.category_results})

\* A validation with an ERROR category and a FAIL category.
ErrorOverFailWitness ==
    /\ FullValidationRan
    /\ \E c1, c2 \in DOMAIN call.result.category_results :
          /\ call.result.category_results[c1].status = "ERROR"
          /\ call.result.category_results[c2].status = "FAIL"
    /\ call.result.overall_status = "ERROR"

ValidatorOps ==
    {"validate_voltage_sensors", "validate_temperature_sensors", "validate_fan_sensors",
     "validate_power_sensors", "validate_discrete_sensors"}

ValidatorReturned == call.op \in ValidatorOps /\ ~call.result.raised

\* A configured sensor was found missing: a MISSING finding was recorded.
FoundMissing(result) ==
    \/ result.missing_sensors > 0
    \/ \E i \in DOMAIN result.violations :
          /\ "type" \in DOMAIN result.violations[i]
          /\ result.violations[i].type \in {"MISSING", "MISSING_CRITICAL"}

\* C9 as stated: each of the five validators returns FAIL if a sensor was judged
\* failed, otherwise WARNING if a configured sensor was found missing or a sensor
\* was judged warning, otherwise PASS.
CategoryStatusFollowsFindings ==
    ValidatorReturned =>
        call.result.status =
            IF call.result.failed_sensors > 0 THEN "FAIL"
            ELSE IF FoundMissing(call.result) \/ call.result.warning_sensors > 0
            THEN "WARNING"
            ELSE "PASS"

\* The configured voltage sensors that are present with an acceptable status and
\* a parsable value beyond a hard bound.
HardViolators ==
    {i \in DOMAIN limits.voltage_limits :
        LET item == limits.voltage_limits[i]
        IN /\ item.name # "comment"
           /\ item.name \in DOMAIN call.sensors
           /\ item.limits.kind = "dict"
           /\ LET reading == call.sensors[item.name]
                  voltage == ParsedValueOf[reading.value]
              IN /\ reading.value # val_na
                 /\ Lower(reading.status) \in {st_ok, st_nc}
                 /\ voltage.kind # "none"
                 /\ \/ item.limits.min.kind = "int"
                       /\ FloatLess(voltage, item.limits.min.value)
                    \/ item.limits.max.kind = "int"
                       /\ FloatGreater(voltage, item.limits.max.value)}

\* C10: a present voltage sensor with an acceptable status and a parsable value
\* beyond min or max gets exactly one violation, UNDERVOLTAGE or OVERVOLTAGE, is
\* counted in failed_sensors, and gets no VOLTAGE_WARNING_LOW or
\* VOLTAGE_WARNING_HIGH even when it is beyond warn_min or warn_max too.
HardBoundOutranksSoft ==
    (call.op = "validate_voltage_sensors" /\ ~call.result.raised) =>
        /\ \A i \in HardViolators :
              LET own == SelectSeq(call.result.violations,
                                   LAMBDA v : v.sensor = limits.voltage_limits[i].name)
              IN /\ Len(own) = 1
                 /\ own[1].type \in {"UNDERVOLTAGE", "OVERVOLTAGE"}
        /\ call.result.failed_sensors = Cardinality(HardViolators)

\* 14.2 V against max 14 and warn_max 13: beyond both, reported as OVERVOLTAGE.
OverBothBoundsWitness ==
    /\ call.op = "validate_voltage_sensors"
    /\ ~call.result.raised
    /\ \E i \in HardViolators :
          LET item == limits.voltage_limits[i]
          IN /\ item.limits.warn_max.kind = "int"
             /\ FloatGreater(ParsedValueOf[call.sensors[item.name].value],
                             item.limits.warn_max.value)
             /\ FloatGreater(ParsedValueOf[call.sensors[item.name].value],
                             item.limits.max.value)
    /\ \E j \in DOMAIN call.result.violations :
          call.result.violations[j].type = "OVERVOLTAGE"

-----------------------------------------------------------------------------
(* Properties of compare_pci_devices *)

PciReturned == call.op = "compare_pci_devices" /\ ~call.result.raised

\* The record a BDF stands for in a list: the dictionary by BDF keeps the last.
DeviceAt(devices, bdf) ==
    devices[CHOOSE i \in DOMAIN devices :
               /\ devices[i].bdf = bdf
               /\ \A j \in DOMAIN devices : devices[j].bdf = bdf => j <= i]

\* The devices of a list whose cleaned class is dev_class and is critical.
DevicesOfClass(devices, dev_class) ==
    {bdf \in {devices[i].bdf : i \in DOMAIN devices} :
        /\ CriticalClassOf[DeviceAt(devices, bdf).class]
        /\ CleanClassOf[DeviceAt(devices, bdf).class] = dev_class}

CleanedClasses == {CleanClassOf[c] : c \in DOMAIN CleanClassOf}

CountMessage(dev_class) ==
    [kind |-> "class_count_mismatch", class |-> dev_class,
     expected |-> Cardinality(DevicesOfClass(call.baseline, dev_class)),
     found |-> Cardinality(DevicesOfClass(call.current, dev_class))]

\* C11 as stated: whenever the baseline and the current list hold different
\* numbers of devices of a critical class, compare_pci_devices returns FAIL and
\* its differences name the class with the expected and the found count.
PciCountMismatchFails ==
    PciReturned =>
        \A dev_class \in CleanedClasses :
            Cardinality(DevicesOfClass(call.baseline, dev_class))
                # Cardinality(DevicesOfClass(call.current, dev_class))
            => /\ call.result.status = "FAIL"
               /\ CountMessage(dev_class) \in Range(call.result.differences)

\* C11 amended: a critical class the baseline holds and whose count differs in
\* the current list gives FAIL and a difference naming the class with the
\* expected and the found count; a critical class the baseline does not hold
\* gives a new-class difference without counts and a status of at least WARNING.
PciBaselineClassMismatchFails ==
    PciReturned =>
        \A dev_class \in CleanedClasses :
            LET expected == Cardinality(DevicesOfClass(call.baseline, dev_class))
                found == Cardinality(DevicesOfClass(call.current, dev_class))
            IN /\ (expected > 0 /\ expected # found)
                  => /\ call.result.status = "FAIL"
                     /\ CountMessage(dev_class) \in Range(call.result.differences)
               /\ (expected = 0 /\ found > 0)
                  => /\ call.result.status \in {"WARNING", "FAIL"}
                     /\ [kind |-> "new_class", class |-> dev_class]
                            \in Range(call.result.differences)
                     /\ CountMessage(dev_class) \notin Range(call.result.differences)

\* Two Ethernet controllers in the baseline, one in the current list.
PciTwoAgainstOneWitness ==
    /\ PciReturned
    /\ \E dev_class \in CleanedClasses :
          /\ Cardinality(DevicesOfClass(call.baseline, dev_class)) = 2
          /\ Cardinality(DevicesOfClass(call.current, dev_class)) = 1
          /\ CountMessage(dev_class) \in Range(call.result.differences)
    /\ call.result.status = "FAIL"

-----------------------------------------------------------------------------
(* Properties of compare_memory *)

MemoryReturned == call.op = "compare_memory" /\ ~call.result.raised

\* A slot whose population differs between the two sides, an absent slot
\* counting as not populated.
FlippedSlots(current, baseline) ==
    {slot \in {current[i].slot : i \in DOMAIN current}
                \cup {baseline[i].slot : i \in DOMAIN baseline} :
        SlotPopulated(DictBy(current, "slot"), slot)
            # SlotPopulated(DictBy(baseline, "slot"), slot)}

\* C12: compare_memory returns FAIL exactly when the total parsed capacity of the
\* populated modules differs between current and baseline; with equal capacity,
\* a different number of populated modules or a slot whose population flipped
\* gives exactly WARNING.
MemoryFailsIffCapacityDiffers ==
    MemoryReturned =>
        /\ call.result.status = "FAIL"
              <=> TotalMemoryGb(call.current) # TotalMemoryGb(call.baseline)
        /\ ( /\ TotalMemoryGb(call.current) = TotalMemoryGb(call.baseline)
             /\ \/ PopulatedCount(call.current) # PopulatedCount(call.baseline)
                \/ FlippedSlots(call.current, call.baseline) # {} )
           => call.result.status = "WARNING"

\* Two populated modules on both sides, 64 GB against 48 GB: capacity loss with
\* an equal population count.
CapacityLossWitness ==
    /\ MemoryReturned
    /\ PopulatedCount(call.current) = PopulatedCount(call.baseline)
    /\ PopulatedCount(call.current) = 2
    /\ FlippedSlots(call.current, call.baseline) = {}
    /\ TotalMemoryGb(call.current) < TotalMemoryGb(call.baseline)
    /\ call.result.status = "FAIL"

-----------------------------------------------------------------------------
(* Properties of compare_usb_devices *)

UsbReturned == call.op = "compare_usb_devices" /\ ~call.result.raised

WithoutIgnorable(devices) ==
    SelectSeq(devices, LAMBDA device : device.vid_pid \notin IGNORABLE_DEVICES)

\* C13 as stated: the devices of the ignore list in the current list change
\* neither the status nor the differences (the comparison of the current list
\* without them gives the same), and each of them is in details.ignored_devices.
IgnorableUsbHasNoEffect ==
    UsbReturned =>
        /\ \A order \in Perms(UsbKeys(WithoutIgnorable(call.current), call.baseline)) :
              LET without == compare_usb_devices(WithoutIgnorable(call.current),
                                                 call.baseline, order)
              IN /\ without.status = call.result.status
                 /\ Range(without.differences) = Range(call.result.differences)
        /\ \A i \in DOMAIN call.current :
              call.current[i].vid_pid \in IGNORABLE_DEVICES
              => call.current[i] \in Range(call.result.ignored_devices)

-----------------------------------------------------------------------------
(* Properties of compare_riser_cards *)

RiserReturned == call.op = "compare_riser_cards" /\ ~call.result.raised

\* The slots populated on both sides whose current serial number is empty or
\* "Required".
UnserialledOnBothSides ==
    {slot \in SlotsWithoutSerial(call.current) :
        /\ slot \in DOMAIN DictBy(call.baseline, "slot")
        /\ DictBy(call.baseline, "slot")[slot].populated}

\* C14: for a slot populated in baseline and current whose current serial number
\* is empty or "Required", compare_riser_cards records a difference, the
\* difference is among the critical ones, and the status is FAIL.
MissingSerialFails ==
    RiserReturned =>
        \A slot \in UnserialledOnBothSides :
            /\ \E i \in DOMAIN call.result.critical_differences :
                  /\ call.result.critical_differences[i].kind = "serial_number_missing"
                  /\ call.result.critical_differences[i].slot = slot
                  /\ call.result.critical_differences[i]
                        \in Range(call.result.differences)
            /\ call.result.status = "FAIL"

\* A riser that differs from its baseline in nothing but the serial number,
\* which reads "Required": one difference, status FAIL.
OnlySerialMissingWitness ==
    /\ RiserReturned
    /\ UnserialledOnBothSides # {}
    /\ call.current # call.baseline
    /\ Len(call.result.differences) = 1
    /\ call.result.differences[1].kind = "serial_number_missing"
    /\ call.result.status = "FAIL"

-----------------------------------------------------------------------------
(* Order of the differences *)

\* C15: a comparator walks the union of the keys in sorted order, so the
\* differences it returns are the same sequence whatever the order in which
\* the set of keys is iterated: a second run on the same baseline and current
\* returns the sequence the first run returned.
DifferencesInOneOrder ==
    /\ call.op = "compare_processors" /\ ~call.result.raised
        => \A order \in Perms(ProcessorKeys(call.current, call.baseline)) :
              compare_processors(call.current, call.baseline, order).differences
                 = call.result.differences
    /\ PciReturned
        => \A order \in Perms(PciKeys(call.current, call.baseline)) :
              compare_pci_devices(call.current, call.baseline, order).differences
                 = call.result.differences
    /\ UsbReturned
        => \A order \in Perms(UsbKeys(call.current, call.baseline)) :
              compare_usb_devices(call.current, call.baseline, order).differences
                 = call.result.differences

-----------------------------------------------------------------------------
(* Properties of main *)

MainValidated == call.op = "main" /\ call.result.validated

\* C16: main exits with 0 for PASS, 1 for FAIL, 2 for WARNING and 3 for an
\* unexpected error; it exits with 0 only when the overall status is PASS.
ExitCodeFollowsStatus ==
    call.op = "main" =>
        /\ call.result.exit_code = 0
              => MainValidated /\ call.result.results.overall_status = "PASS"
        /\ call.result.saved =>
              /\ call.result.results.overall_status = "PASS" => call.result.exit_code = 0
              /\ call.result.results.overall_status = "FAIL" => call.result.exit_code = 1
              /\ call.result.results.overall_status = "WARNING"
                    => call.result.exit_code = 2
        /\ MainValidated /\ ~call.result.saved => call.result.exit_code = 3

-----------------------------------------------------------------------------
(* Properties of the parsers *)

\* The text is the digits of N followed by `suffix`.
IsCountWith(s, suffix) ==
    EndsWith(s, suffix) /\ IsDigitStr(SubSeq(s, 1, Len(s) - Len(suffix)))
CountBefore(s, suffix) == DigitsValue(0, SubSeq(s, 1, Len(s) - Len(suffix)))

\* The size the documented rules give, forms read without regard to case and
\* to surrounding blanks.
DocumentedSize(size_str) ==
    LET s == Upper(Strip(size_str))
    IN IF size_str = <<>> \/ size_str = txt_No_Module_Installed THEN 0
       ELSE IF IsCountWith(s, txt_sp_GB) THEN CountBefore(s, txt_sp_GB)
       ELSE IF IsCountWith(s, txt_GB) THEN CountBefore(s, txt_GB)
       ELSE IF IsCountWith(s, txt_sp_MB) THEN CountBefore(s, txt_sp_MB) \div 1024
       ELSE IF IsCountWith(s, txt_MB) THEN CountBefore(s, txt_MB) \div 1024
       ELSE IF IsDigitStr(s) THEN DigitsValue(0, s)
       ELSE IF \E i \in DOMAIN s : IsDigitChar(s[i])
       THEN DigitsValue(0, FirstDigitRun(s))
       ELSE 0

\* C17: parse_memory_size returns N for "N GB" and "NGB", N \div 1024 for
\* "N MB" and "NMB", N for a bare integer, 0 for "No Module Installed" and for
\* the empty text, and otherwise the first integer in the text, or 0 when the
\* text holds no digit.
ParsedSizeIsDocumentedSize ==
    call.op = "parse_memory_size" => call.result = DocumentedSize(call.size_str)

\* The sentinel texts, read without regard to case and to surrounding blanks.
IsSentinel(value_str) ==
    Strip(Lower(value_str)) \in {word_na, word_n_a, word_disabled, word_not_available,
                                 word_not_specified, word_unknown, <<>>}

\* A decimal numeral: blanks around it, a sign, digits with at most one point.
IsDecimal(text) ==
    LET body == Unsigned(text)
    IN /\ \A i \in DOMAIN body : IsDigitChar(body[i]) \/ body[i] = "."
       /\ Cardinality({i \in DOMAIN body : body[i] = "."}) <= 1
       /\ \E i \in DOMAIN body : IsDigitChar(body[i])

\* The number a decimal numeral denotes, as num / 10^scale.
DecimalValue(text) ==
    LET x == Strip(text)
        after_point ==
            IF \E i \in DOMAIN x : x[i] = "."
            THEN Len(x) - (CHOOSE i \in DOMAIN x : x[i] = ".")
            ELSE 0
    IN [kind |-> "num", num |-> IntValue(Remove(x, <<".">>)), scale |-> after_point]

\* C18: _parse_sensor_value returns None for every sentinel text and for every
\* text that is not a number once its commas are replaced by points, and
\* otherwise returns that number.
ParsedValueIsNumberOrNone ==
    call.op = "_parse_sensor_value" =>
        LET normalized == ReplaceChar(call.value_str, ",", ".")
        IN IF IsSentinel(call.value_str) \/ ~IsDecimal(normalized)
           THEN call.result = NoValue
           ELSE call.result = DecimalValue(normalized)

-----------------------------------------------------------------------------
(* Properties of compare_processors *)

ProcessorsCalled == call.op = "compare_processors"

\* The sockets present on both sides, and the processor each side holds there.
SharedSockets ==
    DOMAIN DictBy(call.current, "socket") \cap DOMAIN DictBy(call.baseline, "socket")
CurrentCpu(socket_name) == DictBy(call.current, "socket")[socket_name]
BaselineCpu(socket_name) == DictBy(call.baseline, "socket")[socket_name]

BothKnown(current_value, baseline_value) ==
    current_value # "Unknown" /\ baseline_value # "Unknown"
OneUnknown(current_value, baseline_value) ==
    (current_value = "Unknown") # (baseline_value = "Unknown")

\* The call returned FAIL with a difference of one of `kinds` on the socket.
FailsWith(kinds, socket_name) ==
    /\ ~call.result.raised
    /\ call.result.status = "FAIL"
    /\ \E i \in DOMAIN call.result.differences :
          /\ call.result.differences[i].kind \in kinds
          /\ call.result.differences[i].socket = socket_name

\* C19: for a socket on both sides whose cores, or threads, differ with both
\* values known, compare_processors returns FAIL with that mismatch among the
\* differences; a model mismatch gives FAIL as well.
KnownMismatchFails ==
    ProcessorsCalled =>
        \A socket_name \in SharedSockets :
            /\ /\ CurrentCpu(socket_name).cores # BaselineCpu(socket_name).cores
               /\ BothKnown(CurrentCpu(socket_name).cores, BaselineCpu(socket_name).cores)
               => FailsWith({"cores_mismatch"}, socket_name)
            /\ /\ CurrentCpu(socket_name).threads # BaselineCpu(socket_name).threads
               /\ BothKnown(CurrentCpu(socket_name).threads,
                            BaselineCpu(socket_name).threads)
               => FailsWith({"threads_mismatch"}, socket_name)
            /\ CurrentCpu(socket_name).model # BaselineCpu(socket_name).model
               => FailsWith({"model_mismatch"}, socket_name)

\* The differences of the returned result that are of one of `kinds` on the socket.
FindingsOf(kinds, socket_name) ==
    {i \in DOMAIN call.result.differences :
        /\ call.result.differences[i].kind \in kinds
        /\ call.result.differences[i].socket = socket_name}

\* C20: for a socket on both sides, when exactly one side's cores, or threads,
\* is "Unknown", compare_processors returns with a detection finding for that
\* field and no mismatch finding for it; when both sides are "Unknown" it
\* returns no finding for that field.
UnknownSideWarns ==
    ProcessorsCalled =>
        \A socket_name \in SharedSockets :
            /\ OneUnknown(CurrentCpu(socket_name).cores, BaselineCpu(socket_name).cores)
               => /\ ~call.result.raised
                  /\ FindingsOf({"cores_detection_failed"}, socket_name) # {}
                  /\ FindingsOf({"cores_mismatch"}, socket_name) = {}
            /\ OneUnknown(CurrentCpu(socket_name).threads,
                          BaselineCpu(socket_name).threads)
               => /\ ~call.result.raised
                  /\ FindingsOf({"threads_detection_failed"}, socket_name) # {}
                  /\ FindingsOf({"threads_mismatch"}, socket_name) = {}
            /\ /\ ~call.result.raised
               /\ CurrentCpu(socket_name).cores = "Unknown"
               /\ BaselineCpu(socket_name).cores = "Unknown"
               => FindingsOf({"cores_detection_failed", "cores_mismatch"},
                             socket_name) = {}
            /\ /\ ~call.result.raised
               /\ CurrentCpu(socket_name).threads = "Unknown"
               /\ BaselineCpu(socket_name).threads = "Unknown"
               => FindingsOf({"threads_detection_failed", "threads_mismatch"},
                             socket_name) = {}

-----------------------------------------------------------------------------
(* Counts of critical USB devices *)

\* The number of critical devices of a list that carry the VID:PID.
CriticalWith(devices, vid_pid) ==
    Cardinality({i \in DOMAIN devices :
                    CriticalUsbOf[devices[i]] /\ devices[i].vid_pid = vid_pid})

UsbShortfalls ==
    {vid_pid \in UsbKeys(call.current, call.baseline) :
        CriticalWith(call.baseline, vid_pid) > CriticalWith(call.current, vid_pid)}
UsbSurpluses ==
    {vid_pid \in UsbKeys(call.current, call.baseline) :
        CriticalWith(call.current, vid_pid) > CriticalWith(call.baseline, vid_pid)}

\* The VID:PIDs the returned differences are about.
UsbReported ==
    {call.result.differences[i].vid_pid : i \in DOMAIN call.result.differences}

\* C21: in compare_usb_devices a critical VID:PID with more devices in the
\* baseline than in current makes the status FAIL, one with more devices in
\* current makes it at least WARNING, one with equal counts adds no
\* difference; devices that are not critical change neither the status nor
\* the differences.
UsbShortfallFailsSurplusWarns ==
    UsbReturned =>
        /\ UsbReported = UsbShortfalls \cup UsbSurpluses
        /\ Len(call.result.differences) = Cardinality(UsbReported)
        /\ call.result.status =
              IF UsbShortfalls # {} THEN "FAIL"
              ELSE IF UsbSurpluses # {} THEN "WARNING"
              ELSE "PASS"
        /\ \E order \in Perms(UsbKeys(call.current, call.baseline)) :
              LET critical_only == compare_usb_devices(CriticalUsb(call.current),
                                                      CriticalUsb(call.baseline), order)
              IN /\ critical_only.status = call.result.status
                 /\ critical_only.differences = call.result.differences

\* A call with a shortfall, a surplus and a device that is not critical.
UsbShortfallAndSurplusWitness ==
    /\ UsbReturned
    /\ UsbShortfalls # {}
    /\ UsbSurpluses # {}
    /\ \E i \in DOMAIN call.current : ~CriticalUsbOf[call.current[i]]
    /\ call.result.status = "FAIL"
    /\ Len(call.result.differences) = 2

-----------------------------------------------------------------------------
(* Temperature sensors without a reading *)

TemperaturesReturned ==
    call.op = "validate_temperature_sensors" /\ ~call.result.raised

\* The configured temperature sensors that are in the map with the value 'na'.
UnreadTemperatures ==
    {limits.temperature_limits[i].name : i \in DOMAIN limits.temperature_limits}
        \cap {name \in DOMAIN call.sensors : call.sensors[name].value = val_na}

\* The types of the violations the result holds for a sensor.
ViolationTypes(sensor_name) ==
    {call.result.violations[i].type :
        i \in {j \in DOMAIN call.result.violations :
                  call.result.violations[j].sensor = sensor_name}}

\* C22: in validate_temperature_sensors a present sensor whose value is 'na'
\* is skipped without a violation when its status is nc or nr, gets the one
\* violation SENSOR_DATA_INCONSISTENT when its status is ok, and the one
\* violation UNAVAILABLE for any other status; it is never held against the
\* thresholds.
UnreadTemperatureByStatus ==
    TemperaturesReturned =>
        \A name \in UnreadTemperatures :
            ViolationTypes(name) =
                IF Lower(call.sensors[name].status) \in {st_nc, st_nr} THEN {}
                ELSE IF Lower(call.sensors[name].status) = st_ok
                THEN {"SENSOR_DATA_INCONSISTENT"}
                ELSE {"UNAVAILABLE"}

-----------------------------------------------------------------------------
(* Optional sensors *)

\* The sensors the called validator is configured to check.
ConfiguredSensors ==
    IF call.op = "validate_voltage_sensors"
    THEN {limits.voltage_limits[i].name : i \in DOMAIN limits.voltage_limits} \ {"comment"}
    ELSE IF call.op = "validate_temperature_sensors"
    THEN {limits.temperature_limits[i].name : i \in DOMAIN limits.temperature_limits}
             \ {"comment"}
    ELSE {limits.discrete_sensors.acceptable_statuses[i].name :
             i \in DOMAIN limits.discrete_sensors.acceptable_statuses}

\* The configured sensors that are declared optional and are not in the map.
AbsentOptionalSensors ==
    IF limits.validation_rules.kind = "dict"
    THEN (ConfiguredSensors \cap limits.validation_rules.optional_sensors)
             \ DOMAIN call.sensors
    ELSE {}

\* C23: in the voltage, temperature and discrete validators a configured
\* sensor that is declared optional and is absent from the sensor map gets no
\* violation.
AbsentOptionalIsNoFinding ==
    /\ call.op \in {"validate_voltage_sensors", "validate_temperature_sensors",
                     "validate_discrete_sensors"}
    /\ ~call.result.raised
    => \A name \in AbsentOptionalSensors : ViolationTypes(name) = {}

-----------------------------------------------------------------------------
(* The key "comment" *)

WithoutComment(entries) == SelectSeq(entries, LAMBDA entry : entry.name # "comment")

\* The limits with the key "comment" taken out of each map of sensors.
LimitsWithoutComments ==
    [limits EXCEPT !.voltage_limits = WithoutComment(@),
                   !.temperature_limits = WithoutComment(@),
                   !.discrete_sensors.acceptable_statuses = WithoutComment(@)]

HasComment ==
    \/ \E i \in DOMAIN limits.voltage_limits : limits.voltage_limits[i].name = "comment"
    \/ \E i \in DOMAIN limits.temperature_limits :
           limits.temperature_limits[i].name = "comment"
    \/ \E i \in DOMAIN limits.discrete_sensors.acceptable_statuses :
           limits.discrete_sensors.acceptable_statuses[i].name = "comment"

\* C24: a key "comment" in voltage_limits, temperature_limits or the
\* acceptable statuses of the discrete sensors is ignored: the validator
\* returns the result it returns on the limits without that key.
CommentIsIgnored ==
    /\ call.op = "validate_voltage_sensors"
        => call.result = validate_voltage_sensors(LimitsWithoutComments, call.sensors)
    /\ call.op = "validate_temperature_sensors"
        => call.result = validate_temperature_sensors(LimitsWithoutComments, call.sensors)
    /\ call.op = "validate_discrete_sensors"
        => call.result = validate_discrete_sensors(LimitsWithoutComments, call.sensors)

-----------------------------------------------------------------------------
(* Virtual media in compare_storage_devices *)

StorageReturned == call.op = "compare_storage_devices" /\ ~call.result.raised

\* The model text names a virtual medium of the BMC.
IsVirtualMedium(device) ==
    \/ Contains(Lower(device.model), kw_virtual_hdisk)
    \/ Contains(Lower(device.model), kw_ami_virtual)

\* IsVirtualMedium on each device record of the model, computed once.
IsVirtualMediumOf == [device \in StorageDevices |-> IsVirtualMedium(device)]

WithoutVirtualMedia(devices) == SelectSeq(devices, LAMBDA device : ~IsVirtualMediumOf[device])

\* The storage types of a list of differences, each once, in the order in which
\* they first occur.
RECURSIVE TypesInOrder(_)
TypesInOrder(differences) ==
    IF differences = <<>> THEN <<>>
    ELSE LET before == TypesInOrder(SubSeq(differences, 1, Len(differences) - 1))
             last == differences[Len(differences)].type
         IN IF last \in Range(before) THEN before ELSE Append(before, last)

\* The call on the two lists without the virtual media returns what the call
\* returned, when its loop walks the storage types in the given order.
SameWithoutVirtualMedia(current, baseline, order) ==
    /\ Range(order) = StorageKeys(current, baseline)
    /\ compare_storage_devices(current, baseline, order).status = call.result.status
    /\ compare_storage_devices(current, baseline, order).differences
          = call.result.differences

\* C25: compare_storage_devices drops the devices whose model contains
\* "virtual hdisk" or "ami virtual" from both sides, so the call returns the
\* status and the differences of the call on the lists without them, whose loop
\* walks the storage types in the order of the differences returned; the status
\* is FAIL when there is a difference and PASS otherwise.
VirtualMediaHaveNoEffect ==
    StorageReturned =>
        /\ call.result.status = IF call.result.differences = <<>> THEN "PASS" ELSE "FAIL"
        /\ SameWithoutVirtualMedia(WithoutVirtualMedia(call.current),
                                   WithoutVirtualMedia(call.baseline),
                                   TypesInOrder(call.result.differences))

\* A virtual disk on one side only, next to a disk both sides hold: PASS.
VirtualDiskOnOneSideWitness ==
    /\ StorageReturned
    /\ Len(call.current) = 2 /\ Len(call.baseline) = 1
    /\ \E i \in DOMAIN call.current : IsVirtualMedium(call.current[i])
    /\ ~IsVirtualMedium(call.baseline[1])
    /\ call.result.status = "PASS"
    /\ call.result.virtual_devices_filtered.current = 1

-----------------------------------------------------------------------------
(* Buckets of compare_storage_devices *)

\* The devices of either side that are kept and whose name starts with the prefix.
KeptWithName(prefix) ==
    {device \in Range(filter_virtual_devices(call.current))
                    \cup Range(filter_virtual_devices(call.baseline)) :
        StartsWith(Lower(device.name), prefix)}

\* The devices of either side that group_by_type puts in the bucket.
InBucket(storage_type) ==
    Range(group_by_type(filter_virtual_devices(call.current), storage_type))
        \cup Range(group_by_type(filter_virtual_devices(call.baseline), storage_type))

\* C26: in compare_storage_devices a kept device whose name starts with
\* "nvme" is in the nvme bucket, and one whose name starts with "mmcblk" is in
\* the mmc bucket, whatever its model.
NamePrefixDecidesBucket ==
    StorageReturned =>
        /\ KeptWithName(kw_nvme) \subseteq InBucket("nvme")
        /\ KeptWithName(kw_mmcblk) \subseteq InBucket("mmc")

-----------------------------------------------------------------------------
(* Devices of no critical class in compare_pci_devices *)

OnePerBdf(devices) ==
    \A i, j \in DOMAIN devices : devices[i].bdf = devices[j].bdf => i = j

CriticalPciOnly(devices) == SelectSeq(devices, IsCriticalPci)

\* C27: the devices of current whose class is not critical are only counted:
\* compare_pci_devices returns the status and the differences it returns on
\* the current snapshot without them.
NonCriticalPciHasNoEffect ==
    PciReturned /\ OnePerBdf(call.current) /\ OnePerBdf(call.baseline) =>
        \E order \in Perms(PciKeys(CriticalPciOnly(call.current), call.baseline)) :
            LET without == compare_pci_devices(CriticalPciOnly(call.current),
                                               call.baseline, order)
            IN /\ without.status = call.result.status
               /\ without.differences = call.result.differences

-----------------------------------------------------------------------------
(* The comparators and the state of the engine *)

\* A second run returns what the call returned: raised or not, the status, and
\* the differences as a set.
SameOutcome(again) ==
    /\ again.raised = call.result.raised
    /\ again.status = call.result.status
    /\ Range(again.differences) = Range(call.result.differences)

\* One order of the keys, the same one for the same keys.
RECURSIVE OneOrder(_)
OneOrder(keys) ==
    IF keys = {} THEN <<>>
    ELSE LET first == CHOOSE key \in keys : TRUE
         IN <<first>> \o OneOrder(keys \ {first})

\* The call returned what the run that walks the keys in OneOrder returns.  The
\* calls that walk the keys of two snapshots in any other order are states of
\* their own, so all of them return what this one run returns.
RepeatedCallAgrees ==
    /\ call.op = "compare_processors"
        => SameOutcome(compare_processors(call.current, call.baseline,
                           OneOrder(ProcessorKeys(call.current, call.baseline))))
    /\ call.op = "compare_memory"
        => SameOutcome(compare_memory(call.current, call.baseline))
    /\ call.op = "compare_pci_devices"
        => SameOutcome(compare_pci_devices(call.current, call.baseline,
                           OneOrder(PciKeys(call.current, call.baseline))))
    /\ call.op = "compare_usb_devices"
        => SameOutcome(compare_usb_devices(call.current, call.baseline,
                           OneOrder(UsbKeys(call.current, call.baseline))))
    /\ call.op = "compare_storage_devices"
        => SameOutcome(compare_storage_devices(call.current, call.baseline,
                           OneOrder(StorageKeys(call.current, call.baseline))))
    /\ call.op = "compare_riser_cards"
        => SameOutcome(compare_riser_cards(call.current, call.baseline))

\* C28: a compare_* operation leaves baseline_config, overall_status and
\* diff_results as they were, and a second call with the same snapshots
\* returns the same status and the same set of differences, in whatever order
\* either call walks its keys.
ComparatorsLeaveEngineAlone ==
    /\ [](ComparatorCalled => RepeatedCallAgrees)
    /\ [][call'.op \in ComparatorOps
            => UNCHANGED <<baseline_config, overall_status, diff_results>>]_vars

\* compare_pci_devices has returned FAIL on two keys, walked in one of their
\* two orders, and the engine holds no verdict.
FailingComparisonUnstoredWitness ==
    /\ call.op = "compare_pci_devices"
    /\ ~call.result.raised
    /\ call.result.status = "FAIL"
    /\ Cardinality(PciKeys(call.current, call.baseline)) = 2
    /\ Len(call.result.differences) >= 2
    /\ overall_status = "UNKNOWN"
    /\ diff_results = EmptyDict

-----------------------------------------------------------------------------
(* Counters and status of a category result *)

\* C29: in the result of a validator the sensors counted as passed, warning,
\* failed or skipped are each counted in actually_checked and in one of the
\* four only: passed_sensors + warning_sensors + failed_sensors +
\* skipped_sensors <= actually_checked.
OutcomesWithinChecked ==
    ValidatorReturned =>
        call.result.passed_sensors + call.result.warning_sensors
            + call.result.failed_sensors + call.result.skipped_sensors
          <= call.result.actually_checked

\* C30: in the result of a validator the status PASS goes with an empty list
\* of violations.
PassHasNoViolations ==
    ValidatorReturned /\ call.result.status = "PASS" => call.result.violations = <<>>

====
